---- MODULE Spec2Model ----
(***************************************************************************)
(* A model of the HML event parser (hml_reader::Parser) together with the  *)
(* name space pool and name space stack it resolves names against.         *)
(*                                                                         *)
(* One step of the model is one iteration of the loop of                   *)
(* Parser::next_event; `ret` holds what that iteration produced: an event  *)
(* or an error (next_event returned), "continue" (the handler returned     *)
(* Ok(None) and the loop goes round again) or "panic".  The states between *)
(* two next_event calls are those in which ret.kind is not "continue".     *)
(***************************************************************************)
EXTENDS Integers, Sequences, FiniteSets, TLC

(***************************************************************************)
(* Bounds of the model                                                     *)
(***************************************************************************)
\* number of tokens other than EndOfFile the token source hands out
MaxTokens == 4
\* largest number of '#' of a tag token
MaxDepth == 3
\* number of tokens other than EndOfFile in the name space runs
MaxNsTokens == 4
\* number of tokens other than EndOfFile in the runs over the content alphabet
MaxOrderTokens == 4
\* lengths of the texts lexed: of quoted strings, of tags, of comments and
\* of texts of every kind of character
MaxString == 8
MaxTag == 5
MaxComment == 6
MaxText == 4
\* most frames a client of the name space stack has on it
MaxFrames == 3

(***************************************************************************)
(* Program constants                                                       *)
(***************************************************************************)
Version == 100
XmlnsUri == "http://www.w3.org/2000/xmlns/"
XmlUri == "http://www.w3.org/XML/1998/namespace"

\* Option::None of an id lookup (ids themselves are 0 for `none`, else index+1)
NoId == -1
\* Option::None of a pending tag or token
NoneTok == [type |-> "None"]

(***************************************************************************)
(* names::Namespace - the pool of interned prefixes, URIs and names        *)
(***************************************************************************)
NamespaceNew(xmlns) ==
    [xmlns |-> xmlns, prefixes |-> <<>>, uris |-> <<>>, names |-> <<>>,
     mappings |-> {}]

\* the id of string s in the vector v: none for "", else first index + 1
FindIn(v, s) ==
    IF s = "" THEN 0
    ELSE IF \E i \in 1..Len(v) : v[i] = s
         THEN CHOOSE i \in 1..Len(v) :
                  v[i] = s /\ \A j \in 1..(i - 1) : v[j] # s
         ELSE NoId

find_name(pool, name) == FindIn(pool.names, name)
find_prefix(pool, prefix) == FindIn(pool.prefixes, prefix)
find_uri(pool, uri) == FindIn(pool.uris, uri)

find_or_add_name(pool, name) ==
    LET Found(id) ==
            IF id # NoId THEN [id |-> id, pool |-> pool]
            ELSE [id |-> Len(pool.names) + 1,
                  pool |-> [pool EXCEPT !.names = Append(@, name)]]
    IN  Found(find_name(pool, name))

\* find_or_add_prefix that pushes the prefix without looking for it
find_or_add_prefix_always_added(pool, prefix) ==
    [id |-> Len(pool.prefixes) + 1,
     pool |-> [pool EXCEPT !.prefixes = Append(@, prefix)]]

find_or_add_prefix(pool, prefix) ==
    LET Found(id) ==
            IF id # NoId THEN [id |-> id, pool |-> pool]
            ELSE [id |-> Len(pool.prefixes) + 1,
                  pool |-> [pool EXCEPT !.prefixes = Append(@, prefix)]]
    IN  Found(find_prefix(pool, prefix))

find_or_add_uri(pool, uri) ==
    LET Found(id) ==
            IF id # NoId THEN [id |-> id, pool |-> pool]
            ELSE [id |-> Len(pool.uris) + 1,
                  pool |-> [pool EXCEPT !.uris = Append(@, uri)]]
    IN  Found(find_uri(pool, uri))

\* Namespace::add_mapping: intern both strings, record the pair
add_mapping(pool, prefix, uri) ==
    LET Record(p_id, u) ==
            [map |-> <<p_id, u.id>>,
             pool |-> [u.pool EXCEPT !.mappings = @ \cup {<<p_id, u.id>>}]]
        WithPrefix(p) == Record(p.id, find_or_add_uri(p.pool, uri))
    IN  WithPrefix(find_or_add_prefix(pool, prefix))

(***************************************************************************)
(* names::NamespaceStack - frames of prefix id -> uri id                   *)
(***************************************************************************)
\* NamespaceStackFrame::default
FrameDefault == [mappings |-> <<>>, order |-> <<>>]

\* NamespaceStackFrame::add_mapping_by_id (HashMap::insert; `order` untouched)
frame_add_mapping_by_id(frame, map) ==
    [frame EXCEPT !.mappings =
        [p \in (DOMAIN frame.mappings) \cup {map[1]} |->
            IF p = map[1] THEN map[2] ELSE frame.mappings[p]]]

\* NamespaceStackFrame::find_mapping
frame_find_mapping(frame, prefix_id) ==
    IF prefix_id \in DOMAIN frame.mappings
    THEN frame.mappings[prefix_id] ELSE NoId

push_frame(ns) == [ns EXCEPT !.frames = Append(@, FrameDefault)]

\* pop_frame that refuses to remove the frame that new() created
pop_frame_panics_initial_frame(ns) == Len(ns.frames) <= 1

\* pop_frame unwraps the popped frame: it panics on an empty stack
pop_frame_panics(ns) == Len(ns.frames) = 0
pop_frame(ns) == [ns EXCEPT !.frames = SubSeq(@, 1, Len(@) - 1)]

\* add_mapping_by_id that writes the bottom frame
add_mapping_by_id_bottom_frame(ns, map) ==
    [ns EXCEPT !.frames[1] = frame_add_mapping_by_id(@, map)]

\* NamespaceStack::add_mapping_by_id: the topmost frame only
add_mapping_by_id(ns, map) ==
    [ns EXCEPT !.frames[Len(ns.frames)] = frame_add_mapping_by_id(@, map)]

\* find_mapping that searches from the bottom frame upward
find_mapping_lowest_frame(ns, prefix_id) ==
    LET Lowest(hits) ==
            IF hits = {} THEN NoId
            ELSE ns.frames[CHOOSE i \in hits : \A j \in hits : i <= j]
                     .mappings[prefix_id]
    IN  Lowest({i \in 1..Len(ns.frames) :
                    frame_find_mapping(ns.frames[i], prefix_id) # NoId})

\* NamespaceStack::find_mapping: topmost frame that binds the prefix
find_mapping(ns, prefix_id) ==
    LET Highest(hits) ==
            IF hits = {} THEN NoId
            ELSE ns.frames[CHOOSE i \in hits : \A j \in hits : j <= i]
                     .mappings[prefix_id]
    IN  Highest({i \in 1..Len(ns.frames) :
                    frame_find_mapping(ns.frames[i], prefix_id) # NoId})

find_prefix_id(ns, prefix) == find_prefix(ns.namespaces, prefix)

add_name(ns, name) ==
    LET Added(r) == [id |-> r.id, ns |-> [ns EXCEPT !.namespaces = r.pool]]
    IN  Added(find_or_add_name(ns.namespaces, name))

add_ns(ns, prefix, uri) ==
    LET Added(r) == add_mapping_by_id([ns EXCEPT !.namespaces = r.pool], r.map)
    IN  Added(add_mapping(ns.namespaces, prefix, uri))

add_null_ns(ns) == add_ns(ns, "", "")

add_default_xmls(ns) ==
    add_ns(add_ns(add_null_ns(ns), "xmlns", XmlnsUri), "xml", XmlUri)

\* uses_xmlns that answers for XML mode whatever the Namespace was made with
uses_xmlns_always(ns) == TRUE

uses_xmlns(ns) == ns.namespaces.xmlns

NamespaceStackNew(pool) ==
    LET Defaults(s) ==
            IF uses_xmlns(s) THEN add_default_xmls(s) ELSE add_null_ns(s)
    IN  Defaults([namespaces |-> pool, frames |-> <<FrameDefault>>])

\* NamespaceStack::name_str / prefix_str / uri_str: the string of an id
\* NamespaceStackFrameIter::next from index i on: the prefixes of `order` in
\* turn, each with its mapping; a prefix without one is passed over
RECURSIVE NamespaceStackFrameIter(_, _)
NamespaceStackFrameIter(frame, i) ==
    IF i > Len(frame.order) THEN <<>>
    ELSE (IF frame_find_mapping(frame, frame.order[i]) # NoId
          THEN <<<<frame.order[i],
                   frame_find_mapping(frame, frame.order[i])>>>>
          ELSE <<>>)
         \o NamespaceStackFrameIter(frame, i + 1)

\* NamespaceStackFrame::iter_mappings, run to exhaustion
iter_mappings(frame) == NamespaceStackFrameIter(frame, 1)

\* NamespaceStack::iter_top_mappings: it asserts that there is no frame, then
\* unwraps the last frame
iter_top_mappings(ns) ==
    IF ~(Len(ns.frames) = 0) THEN [panics |-> TRUE, yields |-> <<>>]
    ELSE IF Len(ns.frames) = 0 THEN [panics |-> TRUE, yields |-> <<>>]
    ELSE [panics |-> FALSE, yields |-> iter_mappings(ns.frames[Len(ns.frames)])]

\* NamespaceStackIterator::next from frame `frame` (len .. 1) on, run to
\* exhaustion: one set per frame, holding the mappings the hash map of the
\* frame yields (in its own order) whose prefix is not in `used`; nothing is
\* ever inserted into `used`
RECURSIVE NamespaceStackIterator(_, _, _)
NamespaceStackIterator(stack, frame, used) ==
    IF frame = 0 THEN <<>>
    ELSE <<{<<p_id, stack.frames[frame].mappings[p_id]>> :
               p_id \in (DOMAIN stack.frames[frame].mappings) \ used}>>
         \o NamespaceStackIterator(stack, frame - 1, used)

\* IntoIterator for &NamespaceStack
into_iter(ns) == NamespaceStackIterator(ns, Len(ns.frames), {})

name_str(ns, id) == IF id = 0 THEN "" ELSE ns.namespaces.names[id]
prefix_str(ns, id) == IF id = 0 THEN "" ELSE ns.namespaces.prefixes[id]
uri_str(ns, id) == IF id = 0 THEN "" ELSE ns.namespaces.uris[id]

(***************************************************************************)
(* names::Name, names::Attribute, names::Tag                               *)
(***************************************************************************)
NameNone == [prefix |-> 0, uri |-> 0, name |-> 0]

\* Name::new: the prefix must be interned and bound in some frame
Name_new(ns, prefix, name) ==
    LET Unmapped == [ok |-> FALSE, err |-> "UnmappedPrefix",
                     name |-> NameNone, ns |-> ns]
        Named(p_id, uri, n) ==
            [ok |-> TRUE, err |-> "",
             name |-> [prefix |-> p_id, uri |-> uri, name |-> n.id],
             ns |-> n.ns]
        WithUri(p_id, uri) ==
            IF uri = NoId THEN Unmapped
            ELSE Named(p_id, uri, add_name(ns, name))
        WithPrefix(p_id) ==
            IF p_id = NoId THEN Unmapped
            ELSE WithUri(p_id, find_mapping(ns, p_id))
    IN  IF name = ""
        THEN [ok |-> FALSE, err |-> "EmptyName", name |-> NameNone, ns |-> ns]
        ELSE WithPrefix(find_prefix_id(ns, prefix))

\* Attribute::new that declares xmlns:p under the attribute's prefix, not its
\* name
Attribute_new_declares_prefix(ns, prefix, name, value) ==
    LET Attr(r) == [ok |-> r.ok, err |-> r.err,
                    attr |-> [name |-> r.name, value |-> value], ns |-> r.ns]
    IN  IF uses_xmlns(ns) /\ prefix = "" /\ name = "xmlns"
        THEN Attr(Name_new(add_ns(ns, "", value), name, name))
        ELSE IF uses_xmlns(ns) /\ prefix = "xmlns"
        THEN Attr(Name_new(add_ns(ns, prefix, value), prefix, name))
        ELSE Attr(Name_new(ns, prefix, name))

\* Attribute::new that does not declare the default name space for xmlns='u'
Attribute_new_default_not_declared(ns, prefix, name, value) ==
    LET Attr(r) == [ok |-> r.ok, err |-> r.err,
                    attr |-> [name |-> r.name, value |-> value], ns |-> r.ns]
    IN  IF uses_xmlns(ns) /\ prefix = "" /\ name = "xmlns"
        THEN Attr(Name_new(ns, name, name))
        ELSE IF uses_xmlns(ns) /\ prefix = "xmlns"
        THEN Attr(Name_new(add_ns(ns, name, value), prefix, name))
        ELSE Attr(Name_new(ns, prefix, name))

\* Attribute::new: in XML mode xmlns / xmlns:p declare into the top frame
Attribute_new(ns, prefix, name, value) ==
    LET Attr(r) == [ok |-> r.ok, err |-> r.err,
                    attr |-> [name |-> r.name, value |-> value], ns |-> r.ns]
    IN  IF uses_xmlns(ns) /\ prefix = "" /\ name = "xmlns"
        THEN Attr(Name_new(add_ns(ns, "", value), name, name))
        ELSE IF uses_xmlns(ns) /\ prefix = "xmlns"
        THEN Attr(Name_new(add_ns(ns, name, value), prefix, name))
        ELSE Attr(Name_new(ns, prefix, name))

\* Attributes::add
Attributes_add(attributes, ns, prefix, name, value) ==
    LET Added(r) ==
            [ok |-> r.ok, err |-> r.err, ns |-> r.ns,
             attributes |-> IF r.ok THEN Append(attributes, r.attr)
                            ELSE attributes]
    IN  Added(Attribute_new(ns, prefix, name, value))

\* Tag::new
Tag_new(ns, prefix, name, attributes) ==
    LET Tagged(r) ==
            [ok |-> r.ok, err |-> r.err, ns |-> r.ns,
             tag |-> [name |-> r.name, attributes |-> attributes]]
    IN  Tagged(Name_new(ns, prefix, name))

(***************************************************************************)
(* reader::Span, markup::Event, reader::ReaderError                        *)
(***************************************************************************)
SpanNewAt(pos) == <<pos, pos>>
SpanStart(span) == span[1]
SpanEnd(span) == span[2]

EventStartDocument(span, version) ==
    [type |-> "StartDocument", span |-> span, version |-> version]
EventEndDocument(span) == [type |-> "EndDocument", span |-> span]
EventStartElement(span, tag) ==
    [type |-> "StartElement", span |-> span, tag |-> tag]
EventEndElement(span, name) ==
    [type |-> "EndElement", span |-> span, name |-> name]
EventComment(span, lines) ==
    [type |-> "Comment", span |-> span, lines |-> lines]
EventContent(span, ctype, data) ==
    [type |-> "Content", span |-> span, ctype |-> ctype, data |-> data]

\* the three outcomes of a handler, and a panic
OkNone == [kind |-> "continue", val |-> [type |-> "None"]]
OkSome(event) == [kind |-> "event", val |-> event]
Err(error) == [kind |-> "error", val |-> error]
Panic == [kind |-> "panic", val |-> [type |-> "None"]]

ErrBeyondEndOfTokens == [type |-> "BeyondEndOfTokens"]
ErrUnexpectedTagIndent(span, depth) ==
    [type |-> "UnexpectedTagIndent", span |-> span, depth |-> depth]
ErrUnexpectedAttribute(span, prefix, name) ==
    [type |-> "UnexpectedAttribute", span |-> span,
     prefix |-> prefix, name |-> name]
ErrMarkup(span, err) == [type |-> "MarkupError", span |-> span, err |-> err]
ErrReader == [type |-> "ReaderError"]

(***************************************************************************)
(* hml_reader::builder - OpenTag, CloseTag, StackElement                   *)
(***************************************************************************)
TagExtra(depth, boxed) == [depth |-> depth, boxed |-> boxed]

OpenTagNew(span, prefix, name, extra) ==
    [type |-> "OpenTag", span |-> span, prefix |-> prefix, name |-> name,
     extra |-> extra]

\* CloseTag::new resolves the name of the close tag
CloseTagNew(span, ns, prefix, name, extra) ==
    LET Closed(r) ==
            [ok |-> r.ok, err |-> r.err, ns |-> r.ns,
             close_tag |-> [type |-> "CloseTag", span |-> span,
                            name |-> r.name, extra |-> extra]]
    IN  Closed(Name_new(ns, prefix, name))

\* StackElement::new pushes a name space frame
StackElementNew(ns, parent_depth, open_tag) ==
    [ns |-> push_frame(ns),
     elt |-> [parent_depth |-> parent_depth, open_tag |-> open_tag,
              tag_name |-> NameNone, attributes |-> <<>>]]

\* add_attribute that reports a failure at the span of the open tag
add_attribute_open_tag_span(elt, span, ns, prefix, name, value) ==
    LET Added(r) ==
            [ns |-> r.ns,
             elt |-> [elt EXCEPT !.attributes = r.attributes],
             res |-> IF r.ok THEN OkNone
                     ELSE Err(ErrMarkup(elt.open_tag.span, r.err))]
    IN  Added(Attributes_add(elt.attributes, ns, prefix, name, value))

\* StackElement::add_attribute
add_attribute(elt, span, ns, prefix, name, value) ==
    LET Added(r) ==
            [ns |-> r.ns,
             elt |-> [elt EXCEPT !.attributes = r.attributes],
             res |-> IF r.ok THEN OkNone ELSE Err(ErrMarkup(span, r.err))]
    IN  Added(Attributes_add(elt.attributes, ns, prefix, name, value))

\* as_start_element that does not keep the resolved tag name in the element
as_start_element_name_not_kept(elt, ns) ==
    LET Started(r) ==
            [ns |-> r.ns,
             elt |-> [elt EXCEPT !.attributes = <<>>],
             res |-> IF r.ok
                     THEN OkSome(EventStartElement(elt.open_tag.span, r.tag))
                     ELSE Err(ErrMarkup(elt.open_tag.span, r.err))]
    IN  Started(Tag_new(ns, elt.open_tag.prefix, elt.open_tag.name,
                        elt.attributes))

\* StackElement::as_start_element: the attributes are taken before the tag
\* name is resolved, so they are gone from the element also on failure
as_start_element(elt, ns) ==
    LET Started(r) ==
            [ns |-> r.ns,
             elt |-> [elt EXCEPT !.attributes = <<>>,
                                 !.tag_name = IF r.ok THEN r.tag.name ELSE @],
             res |-> IF r.ok
                     THEN OkSome(EventStartElement(elt.open_tag.span, r.tag))
                     ELSE Err(ErrMarkup(elt.open_tag.span, r.err))]
    IN  Started(Tag_new(ns, elt.open_tag.prefix, elt.open_tag.name,
                        elt.attributes))

\* as_end_element that leaves the element's name space frame on the stack
as_end_element_no_pop_frame(elt, ns, span) ==
    [ns |-> ns,
     event |-> EventEndElement(span, elt.tag_name),
     depth |-> elt.parent_depth]

\* StackElement::as_end_element pops a name space frame
as_end_element(elt, ns, span) ==
    [ns |-> pop_frame(ns),
     event |-> EventEndElement(span, elt.tag_name),
     depth |-> elt.parent_depth]

(***************************************************************************)
(* hml_reader::token - the tokens the token source hands to the parser     *)
(***************************************************************************)
Token(span, tt, depth, boxed, contents) ==
    [type |-> tt, span |-> span, contents |-> contents, depth |-> depth,
     boxed |-> boxed]

TokenOpen(span, prefix, name, depth, boxed) ==
    Token(span, "TagOpen", depth, boxed, <<prefix, name>>)
TokenClose(span, prefix, name, depth) ==
    Token(span, "TagClose", depth, FALSE, <<prefix, name>>)
TokenAttribute(span, prefix, name, value) ==
    Token(span, "Attribute", 0, FALSE, <<prefix, name, value>>)
TokenComment(span, lines) == Token(span, "Comment", 0, FALSE, lines)
TokenWhitespace(span) == Token(span, "Whitespace", 0, FALSE, <<>>)
TokenRawCharacters(span, str) == Token(span, "RawCharacters", 0, FALSE, <<str>>)
TokenCharacters(span, str) == Token(span, "Characters", 0, FALSE, <<str>>)
TokenEof(span) == Token(span, "EndOfFile", 0, FALSE, <<>>)

is_attribute(token) == token.type = "Attribute"

(***************************************************************************)
(* hml_reader::parser - the Parser and its handlers.  A handler maps the   *)
(* parser and the name space stack to their new values and its result.     *)
(***************************************************************************)
ParserDefault ==
    [version |-> Version, start_emitted |-> FALSE, end_emitted |-> FALSE,
     finished |-> FALSE, tag_depth |-> 0, tag_stack |-> <<>>,
     pending_eof |-> FALSE, pending_open_tag |-> NoneTok,
     pending_close_tag |-> NoneTok, pending_token |-> NoneTok,
     start_element_building |-> FALSE, token_pos |-> 0]

Outcome(p, ns, res) == [parser |-> p, ns |-> ns, res |-> res]

Top(stack) == stack[Len(stack)]
Pop(stack) == SubSeq(stack, 1, Len(stack) - 1)

\* pop_tag_stack that leaves tag_depth as it is
pop_tag_stack_depth_kept(p, ns, span) ==
    LET Popped(r) ==
            Outcome([p EXCEPT !.tag_stack = Pop(@)], r.ns, OkSome(r.event))
    IN  IF Len(p.tag_stack) = 0 \/ pop_frame_panics(ns)
        THEN Outcome(p, ns, Panic)
        ELSE Popped(as_end_element(Top(p.tag_stack), ns, span))

\* Parser::pop_tag_stack: asserts that the stack is not empty
pop_tag_stack(p, ns, span) ==
    LET Popped(r) ==
            Outcome([p EXCEPT !.tag_stack = Pop(@), !.tag_depth = r.depth],
                    r.ns, OkSome(r.event))
    IN  IF Len(p.tag_stack) = 0 \/ pop_frame_panics(ns)
        THEN Outcome(p, ns, Panic)
        ELSE Popped(as_end_element(Top(p.tag_stack), ns, span))

\* handle_pending_eof that forgets the end of file once it closed an element
handle_pending_eof_fetches_again(p, ns) ==
    IF Len(p.tag_stack) = 0
    THEN Outcome([p EXCEPT !.end_emitted = TRUE], ns, OkNone)
    ELSE pop_tag_stack([p EXCEPT !.pending_eof = FALSE], ns,
                       SpanNewAt(p.token_pos))

\* Parser::handle_pending_eof
handle_pending_eof(p, ns) ==
    IF Len(p.tag_stack) = 0
    THEN Outcome([p EXCEPT !.end_emitted = TRUE], ns, OkNone)
    ELSE pop_tag_stack(p, ns, SpanNewAt(p.token_pos))

\* handle_close_tag that validates the close tag against the element it closes
handle_close_tag_name_checked(p, ns, close_tag) ==
    IF p.tag_depth > 0
    THEN pop_tag_stack([p EXCEPT !.pending_close_tag = close_tag], ns,
                       SpanNewAt(SpanStart(close_tag.span)))
    ELSE IF Len(p.tag_stack) > 0 /\ Top(p.tag_stack).tag_name # close_tag.name
    THEN Outcome(p, ns, Err(ErrMarkup(close_tag.span, "UnmatchedClose")))
    ELSE pop_tag_stack(p, ns, close_tag.span)

\* handle_close_tag that does not stash the close tag again
handle_close_tag_not_restashed(p, ns, close_tag) ==
    IF p.tag_depth > 0
    THEN pop_tag_stack(p, ns, SpanNewAt(SpanStart(close_tag.span)))
    ELSE pop_tag_stack(p, ns, close_tag.span)

\* Parser::handle_close_tag (p has the pending close tag already taken)
handle_close_tag(p, ns, close_tag) ==
    IF p.tag_depth > 0
    THEN pop_tag_stack([p EXCEPT !.pending_close_tag = close_tag], ns,
                       SpanNewAt(SpanStart(close_tag.span)))
    ELSE pop_tag_stack(p, ns, close_tag.span)

\* handle_open_tag that also closes a boxed element at the top of the stack
handle_open_tag_closes_box(p, ns, open_tag) ==
    LET Pushed(r) ==
            Outcome([p EXCEPT !.tag_stack = Append(@, r.elt),
                              !.start_element_building = TRUE,
                              !.tag_depth = IF open_tag.extra.boxed
                                            THEN 0 ELSE @ + 1],
                    r.ns, OkNone)
    IN  IF \/ open_tag.extra.depth <= p.tag_depth
           \/ /\ Len(p.tag_stack) > 0
              /\ Top(p.tag_stack).open_tag.extra.boxed
              /\ Top(p.tag_stack).open_tag.extra.depth
                    >= open_tag.extra.depth
        THEN pop_tag_stack([p EXCEPT !.pending_open_tag = open_tag], ns,
                           SpanNewAt(SpanStart(open_tag.span)))
        ELSE IF open_tag.extra.depth = p.tag_depth + 1
        THEN Pushed(StackElementNew(ns, p.tag_depth, open_tag))
        ELSE Outcome(p, ns,
                 Err(ErrUnexpectedTagIndent(open_tag.span, p.tag_depth + 1)))

\* handle_open_tag that opens a tag of any depth above tag_depth
handle_open_tag_no_indent_check(p, ns, open_tag) ==
    LET Pushed(r) ==
            Outcome([p EXCEPT !.tag_stack = Append(@, r.elt),
                              !.start_element_building = TRUE,
                              !.tag_depth = IF open_tag.extra.boxed
                                            THEN 0 ELSE @ + 1],
                    r.ns, OkNone)
    IN  IF open_tag.extra.depth <= p.tag_depth
        THEN pop_tag_stack([p EXCEPT !.pending_open_tag = open_tag], ns,
                           SpanNewAt(SpanStart(open_tag.span)))
        ELSE Pushed(StackElementNew(ns, p.tag_depth, open_tag))

\* handle_open_tag that closes only for a depth below tag_depth
handle_open_tag_closes_below(p, ns, open_tag) ==
    LET Pushed(r) ==
            Outcome([p EXCEPT !.tag_stack = Append(@, r.elt),
                              !.start_element_building = TRUE,
                              !.tag_depth = IF open_tag.extra.boxed
                                            THEN 0 ELSE @ + 1],
                    r.ns, OkNone)
    IN  IF open_tag.extra.depth < p.tag_depth
        THEN pop_tag_stack([p EXCEPT !.pending_open_tag = open_tag], ns,
                           SpanNewAt(SpanStart(open_tag.span)))
        ELSE IF open_tag.extra.depth = p.tag_depth + 1
        THEN Pushed(StackElementNew(ns, p.tag_depth, open_tag))
        ELSE Outcome(p, ns,
                 Err(ErrUnexpectedTagIndent(open_tag.span, p.tag_depth + 1)))

\* handle_open_tag that does not reset tag_depth for a boxed opener
handle_open_tag_box_keeps_depth(p, ns, open_tag) ==
    LET Pushed(r) ==
            Outcome([p EXCEPT !.tag_stack = Append(@, r.elt),
                              !.start_element_building = TRUE,
                              !.tag_depth = @ + 1],
                    r.ns, OkNone)
    IN  IF open_tag.extra.depth <= p.tag_depth
        THEN pop_tag_stack([p EXCEPT !.pending_open_tag = open_tag], ns,
                           SpanNewAt(SpanStart(open_tag.span)))
        ELSE IF open_tag.extra.depth = p.tag_depth + 1
        THEN Pushed(StackElementNew(ns, p.tag_depth, open_tag))
        ELSE Outcome(p, ns,
                 Err(ErrUnexpectedTagIndent(open_tag.span, p.tag_depth + 1)))

\* Parser::handle_open_tag (p has the pending open tag already taken)
handle_open_tag(p, ns, open_tag) ==
    LET Pushed(r) ==
            Outcome([p EXCEPT !.tag_stack = Append(@, r.elt),
                              !.start_element_building = TRUE,
                              !.tag_depth = IF open_tag.extra.boxed
                                            THEN 0 ELSE @ + 1],
                    r.ns, OkNone)
    IN  IF open_tag.extra.depth <= p.tag_depth
        THEN pop_tag_stack([p EXCEPT !.pending_open_tag = open_tag], ns,
                           SpanNewAt(SpanStart(open_tag.span)))
        ELSE IF open_tag.extra.depth = p.tag_depth + 1
        THEN Pushed(StackElementNew(ns, p.tag_depth, open_tag))
        ELSE Outcome(p, ns,
                 Err(ErrUnexpectedTagIndent(open_tag.span, p.tag_depth + 1)))

\* the arm for a token that ends attribute accumulation, not stashing it
handle_token_start_element_token_dropped(p, ns, token) ==
    LET Started(q, r) ==
            Outcome([q EXCEPT !.tag_stack[Len(q.tag_stack)] = r.elt],
                    r.ns, r.res)
        Stashed(q) ==
            IF Len(q.tag_stack) = 0 THEN Outcome(q, ns, Panic)
            ELSE Started(q, as_start_element(Top(q.tag_stack), ns))
    IN  Stashed([p EXCEPT !.start_element_building = FALSE])

\* Parser::handle_token, the arm for a token that ends attribute accumulation
handle_token_start_element(p, ns, token) ==
    LET Started(q, r) ==
            Outcome([q EXCEPT !.tag_stack[Len(q.tag_stack)] = r.elt],
                    r.ns, r.res)
        Stashed(q) ==
            IF Len(q.tag_stack) = 0 THEN Outcome(q, ns, Panic)
            ELSE Started(q, as_start_element(Top(q.tag_stack), ns))
    IN  Stashed([p EXCEPT !.start_element_building = FALSE,
                          !.pending_token = token])

\* handle_token that drops an attribute met outside attribute accumulation
handle_token_by_type_attribute_dropped(p0, ns, token) ==
    LET CloseStashed(p, r) ==
            IF r.ok
            THEN Outcome([p EXCEPT !.pending_close_tag = r.close_tag],
                         r.ns, OkNone)
            ELSE Outcome(p, r.ns, Err(ErrMarkup(token.span, r.err)))
        AttributeAdded(p, r) ==
            Outcome([p EXCEPT !.tag_stack[Len(p.tag_stack)] = r.elt],
                    r.ns, r.res)
        ByType(p, c) ==
            CASE token.type = "Comment" ->
                    Outcome(p, ns, OkSome(EventComment(token.span, c)))
              [] token.type = "TagOpen" ->
                    Outcome([p EXCEPT !.pending_open_tag =
                                OpenTagNew(token.span, c[1], c[2],
                                    TagExtra(token.depth, token.boxed))],
                            ns, OkNone)
              [] token.type = "TagClose" ->
                    CloseStashed(p, CloseTagNew(token.span, ns, c[1], c[2],
                                        TagExtra(token.depth, FALSE)))
              [] token.type = "Attribute" ->
                    IF p.start_element_building
                    THEN IF Len(p.tag_stack) = 0 THEN Outcome(p, ns, Panic)
                         ELSE AttributeAdded(p,
                                  add_attribute(Top(p.tag_stack), token.span,
                                                ns, c[1], c[2], c[3]))
                    ELSE Outcome(p, ns, OkNone)
              [] token.type = "Characters" ->
                    Outcome(p, ns,
                        OkSome(EventContent(token.span, "Interpretable",
                                            c[1])))
              [] token.type = "RawCharacters" ->
                    Outcome(p, ns,
                        OkSome(EventContent(token.span, "Raw", c[1])))
              [] token.type = "Whitespace" -> Outcome(p, ns, OkNone)
              [] token.type = "EndOfFile" ->
                    Outcome([p EXCEPT !.pending_eof = TRUE], ns, OkNone)
    IN  ByType([p0 EXCEPT !.token_pos = SpanEnd(token.span)], token.contents)

\* Parser::handle_token, the match on the token type
handle_token_by_type(p0, ns, token) ==
    LET CloseStashed(p, r) ==
            IF r.ok
            THEN Outcome([p EXCEPT !.pending_close_tag = r.close_tag],
                         r.ns, OkNone)
            ELSE Outcome(p, r.ns, Err(ErrMarkup(token.span, r.err)))
        AttributeAdded(p, r) ==
            Outcome([p EXCEPT !.tag_stack[Len(p.tag_stack)] = r.elt],
                    r.ns, r.res)
        ByType(p, c) ==
            CASE token.type = "Comment" ->
                    Outcome(p, ns, OkSome(EventComment(token.span, c)))
              [] token.type = "TagOpen" ->
                    Outcome([p EXCEPT !.pending_open_tag =
                                OpenTagNew(token.span, c[1], c[2],
                                    TagExtra(token.depth, token.boxed))],
                            ns, OkNone)
              [] token.type = "TagClose" ->
                    CloseStashed(p, CloseTagNew(token.span, ns, c[1], c[2],
                                        TagExtra(token.depth, FALSE)))
              [] token.type = "Attribute" ->
                    IF p.start_element_building
                    THEN IF Len(p.tag_stack) = 0 THEN Outcome(p, ns, Panic)
                         ELSE AttributeAdded(p,
                                  add_attribute(Top(p.tag_stack), token.span,
                                                ns, c[1], c[2], c[3]))
                    ELSE Outcome(p, ns,
                             Err(ErrUnexpectedAttribute(token.span,
                                                        c[1], c[2])))
              [] token.type = "Characters" ->
                    Outcome(p, ns,
                        OkSome(EventContent(token.span, "Interpretable",
                                            c[1])))
              [] token.type = "RawCharacters" ->
                    Outcome(p, ns,
                        OkSome(EventContent(token.span, "Raw", c[1])))
              [] token.type = "Whitespace" -> Outcome(p, ns, OkNone)
              [] token.type = "EndOfFile" ->
                    Outcome([p EXCEPT !.pending_eof = TRUE], ns, OkNone)
    IN  ByType([p0 EXCEPT !.token_pos = SpanEnd(token.span)], token.contents)

\* handle_token that keeps every token it handles as the pending token
handle_token_token_kept(p, ns, token) ==
    IF p.start_element_building /\ ~is_attribute(token)
    THEN handle_token_start_element(p, ns, token)
    ELSE handle_token_by_type([p EXCEPT !.pending_token = token], ns, token)

\* Parser::handle_token
handle_token(p, ns, token) ==
    IF p.start_element_building /\ ~is_attribute(token)
    THEN handle_token_start_element(p, ns, token)
    ELSE handle_token_by_type(p, ns, token)

\* the head of the loop testing end_emitted before finished
LoopHead_end_emitted_first(p) ==
    IF ~p.start_emitted THEN "start_document"
    ELSE IF p.end_emitted THEN "end_document"
    ELSE IF p.finished THEN "no_more_events"
    ELSE "handle"

\* the head of the loop of next_event: which of its three early returns, if
\* any, this iteration takes
LoopHead(p) ==
    IF ~p.start_emitted THEN "start_document"
    ELSE IF p.finished THEN "no_more_events"
    ELSE IF p.end_emitted THEN "end_document"
    ELSE "handle"

\* the if-else chain of next_event that picks the handler
Dispatch(p) ==
    IF p.pending_eof THEN "eof"
    ELSE IF p.pending_close_tag # NoneTok THEN "close_tag"
    ELSE IF p.pending_open_tag # NoneTok THEN "open_tag"
    ELSE IF p.pending_token # NoneTok THEN "pending_token"
    ELSE "get_token"

\* next_event, the three returns at the head of its loop
emit_start_document(p, ns) ==
    Outcome([p EXCEPT !.start_emitted = TRUE], ns,
            OkSome(EventStartDocument(SpanNewAt(p.token_pos), p.version)))

no_more_events(p, ns) == Outcome(p, ns, Err(ErrBeyondEndOfTokens))

\* EndDocument returned without setting `finished`
emit_end_document_not_finished(p, ns) ==
    Outcome(p, ns, OkSome(EventEndDocument(SpanNewAt(p.token_pos))))

emit_end_document(p, ns) ==
    Outcome([p EXCEPT !.finished = TRUE], ns,
            OkSome(EventEndDocument(SpanNewAt(p.token_pos))))

(***************************************************************************)
(* The state: the parser, the name space stack it is called with, the      *)
(* token source, and what an observer of the calls has seen so far.        *)
(***************************************************************************)
VARIABLES
    parser,      \* the Parser
    ns_stack,    \* the NamespaceStack (with the Namespace it borrows)
    fetched,     \* number of tokens the token source has handed out
    source_eof,  \* the token source has handed out EndOfFile
    ret,         \* outcome of the latest iteration of the loop of next_event
    events,      \* history: the events next_event has returned, in order
    errored,     \* history: some next_event call has returned an error
    opened,      \* history: for each element of tag_stack, the name space
                 \* stack and tag_depth just before it was pushed
    stashed,     \* history: tag_depth, tag_stack, number of events and of
                 \* fetched tokens when the pending tag was taken from a token
    closed,      \* history: for each element popped, whether it was boxed
                 \* and the handler that popped it
    received,    \* history: the tokens handed out since the innermost
                 \* element was pushed and while it was being built
    text,        \* the characters that the lexers read
    reader,      \* the Lexer of lexer.rs with its Reader: the position in
                 \* the text and, as history, what next_token returned
    lexer_iter,  \* the iterator of lexer_rs over parse_fns: the position in
                 \* the text and, as history, what next() returned
    unpopped,    \* history: the push_frame calls that a client of the name
                 \* space stack made itself and has not yet popped
    handed       \* history: the tokens handed out, in order, of the types
                 \* that the specification keeps

vars == <<parser, ns_stack, fetched, source_eof, ret, events, errored,
          opened, stashed, closed, received, text, reader, lexer_iter,
          unpopped, handed>>

\* the lexers before their first call
ReaderNew == [pos |-> 1, tokens |-> <<>>, done |-> FALSE]
LexerIterNew == [posn |-> 1, tokens |-> <<>>, done |-> FALSE]

Init ==
    /\ parser = ParserDefault
    /\ \E xmlns \in BOOLEAN : ns_stack = NamespaceStackNew(NamespaceNew(xmlns))
    /\ fetched = 0
    /\ source_eof = FALSE
    /\ ret = [kind |-> "init", val |-> [type |-> "None"]]
    /\ events = <<>>
    /\ errored = FALSE
    /\ opened = <<>>
    /\ stashed = [tag_depth |-> 0, tag_stack |-> <<>>, events |-> 0,
                  fetched |-> 0, tag |-> NoneTok]
    /\ closed = <<>>
    /\ received = <<>>
    /\ text = <<>>
    /\ reader = ReaderNew
    /\ lexer_iter = LexerIterNew
    /\ unpopped = 0
    /\ handed = <<>>

\* a panic ends the program
Running == ret.kind # "panic"
\* next_event is not executing: the caller has the result of the latest call
BetweenCalls == ret.kind # "continue"

\* the history kept of one iteration with outcome `out`
Observe(out, f) ==
    /\ events' = IF out.res.kind = "event" THEN Append(events, out.res.val)
                 ELSE events
    /\ errored' = (errored \/ out.res.kind = "error")
    /\ opened' =
          IF Len(out.parser.tag_stack) > Len(parser.tag_stack)
          THEN Append(opened, [ns |-> ns_stack,
                               tag_depth |-> parser.tag_depth])
          ELSE IF Len(out.parser.tag_stack) < Len(parser.tag_stack)
          THEN Pop(opened)
          ELSE opened
    /\ stashed' =
          IF \/ /\ parser.pending_open_tag = NoneTok
                /\ out.parser.pending_open_tag # NoneTok
             \/ /\ parser.pending_close_tag = NoneTok
                /\ out.parser.pending_close_tag # NoneTok
          THEN [tag_depth |-> out.parser.tag_depth,
                tag_stack |-> out.parser.tag_stack,
                events |-> Len(events), fetched |-> f,
                tag |-> IF out.parser.pending_open_tag # NoneTok
                        THEN out.parser.pending_open_tag
                        ELSE out.parser.pending_close_tag]
          ELSE stashed
    /\ closed' =
          IF Len(out.parser.tag_stack) < Len(parser.tag_stack)
          THEN Append(closed,
                      [boxed |-> Top(parser.tag_stack).open_tag.extra.boxed,
                       by |-> Dispatch(parser)])
          ELSE closed

\* one iteration of the loop with outcome `out`, after which the token source
\* has handed out f tokens
Step(out, f) ==
    /\ parser' = out.parser
    /\ ns_stack' = out.ns
    /\ ret' = out.res
    /\ fetched' = f
    /\ Observe(out, f)
    /\ UNCHANGED <<text, reader, lexer_iter, unpopped>>

\* the tokens `new` were handed out in this iteration
Receive(new) ==
    received' = IF Len(parser'.tag_stack) > Len(parser.tag_stack)
                THEN <<>> ELSE received \o new

\* the tokens `new` are added to the history of the tokens handed out
Handed(new) == handed' = handed \o new

\* span of the next token of the source
NextSpan == <<2 * fetched + 1, 2 * fetched + 2>>

\* tag structure alphabet: unprefixed tags of every depth, boxed or not
StructTokens(span) ==
    {TokenOpen(span, "", n, d, b) :
        n \in {"a", "b"}, d \in 1..MaxDepth, b \in BOOLEAN}
    \cup {TokenClose(span, "", "a", 1),
          TokenClose(span, "", "b", 2),
          TokenAttribute(span, "", "k", "v"),
          TokenCharacters(span, "text"),
          TokenWhitespace(span)}

\* name space alphabet: prefixed and unprefixed tags, xmlns attributes
NsTokens(span) ==
    {TokenOpen(span, pf, "a", 1, b) : pf \in {"", "p"}, b \in BOOLEAN}
    \cup {TokenOpen(span, pf, "a", 2, FALSE) : pf \in {"", "p"}}
    \cup {TokenClose(span, pf, "a", 1) : pf \in {"", "p"}}
    \cup {TokenAttribute(span, "", "xmlns", u) : u \in {"u", "w"}}
    \cup {TokenAttribute(span, "xmlns", "p", u) : u \in {"u", "w"}}
    \cup {TokenAttribute(span, "p", "k", "v"),
          TokenAttribute(span, "", "k", "v"),
          TokenRawCharacters(span, "text"),
          TokenComment(span, <<"c1", "c2">>)}

\* what the token source may hand out next: any token of the alphabet until
\* `max` of them were handed out, EndOfFile at any time and ever after
Offered(alphabet, max) ==
    (IF source_eof \/ fetched >= max THEN {} ELSE alphabet)
    \cup {TokenEof(NextSpan)}

(***************************************************************************)
(* The iterations of the loop of next_event                                *)
(***************************************************************************)
EmitStartDocument ==
    /\ Running /\ LoopHead(parser) = "start_document"
    /\ Step(emit_start_document(parser, ns_stack), fetched)
    /\ UNCHANGED source_eof
    /\ Receive(<<>>)
    /\ Handed(<<>>)

NoMoreEvents ==
    /\ Running /\ LoopHead(parser) = "no_more_events"
    /\ Step(no_more_events(parser, ns_stack), fetched)
    /\ UNCHANGED source_eof
    /\ Receive(<<>>)
    /\ Handed(<<>>)

EmitEndDocument ==
    /\ Running /\ LoopHead(parser) = "end_document"
    /\ Step(emit_end_document(parser, ns_stack), fetched)
    /\ UNCHANGED source_eof
    /\ Receive(<<>>)
    /\ Handed(<<>>)

HandlePendingEof ==
    /\ Running /\ LoopHead(parser) = "handle" /\ Dispatch(parser) = "eof"
    /\ Step(handle_pending_eof(parser, ns_stack), fetched)
    /\ UNCHANGED source_eof
    /\ Receive(<<>>)
    /\ Handed(<<>>)

HandleCloseTag ==
    /\ Running /\ LoopHead(parser) = "handle"
    /\ Dispatch(parser) = "close_tag"
    /\ Step(handle_close_tag([parser EXCEPT !.pending_close_tag = NoneTok],
                             ns_stack, parser.pending_close_tag), fetched)
    /\ UNCHANGED source_eof
    /\ Receive(<<>>)
    /\ Handed(<<>>)

HandleOpenTag ==
    /\ Running /\ LoopHead(parser) = "handle"
    /\ Dispatch(parser) = "open_tag"
    /\ Step(handle_open_tag([parser EXCEPT !.pending_open_tag = NoneTok],
                            ns_stack, parser.pending_open_tag), fetched)
    /\ UNCHANGED source_eof
    /\ Receive(<<>>)
    /\ Handed(<<>>)

HandlePendingToken ==
    /\ Running /\ LoopHead(parser) = "handle"
    /\ Dispatch(parser) = "pending_token"
    /\ Step(handle_token([parser EXCEPT !.pending_token = NoneTok],
                         ns_stack, parser.pending_token), fetched)
    /\ UNCHANGED source_eof
    /\ Receive(<<>>)
    /\ Handed(<<>>)

\* get_token() returns a token, which is handled; the history keeps it if
\* its type is in `kept`
GetToken(alphabet, max, kept) ==
    /\ Running /\ LoopHead(parser) = "handle"
    /\ Dispatch(parser) = "get_token"
    /\ fetched < max + 2
    /\ \E token \in Offered(alphabet, max) :
          /\ Step(handle_token(parser, ns_stack, token), fetched + 1)
          /\ source_eof' = (source_eof \/ token.type = "EndOfFile")
          /\ Receive(IF parser.start_element_building
                     THEN <<token>> ELSE <<>>)
          /\ Handed(IF token.type \in kept THEN <<token>> ELSE <<>>)

\* get_token() returns an error, which next_event returns
GetTokenError ==
    /\ Running /\ LoopHead(parser) = "handle"
    /\ Dispatch(parser) = "get_token"
    /\ Step(Outcome(parser, ns_stack, Err(ErrReader)), fetched)
    /\ UNCHANGED source_eof
    /\ Receive(<<>>)
    /\ Handed(<<>>)

GetStructToken == GetToken(StructTokens(NextSpan), MaxTokens, {})
GetNsToken == GetToken(NsTokens(NextSpan), MaxNsTokens, {})

NextCommon ==
    \/ EmitStartDocument
    \/ NoMoreEvents
    \/ EmitEndDocument
    \/ HandlePendingEof
    \/ HandleCloseTag
    \/ HandleOpenTag
    \/ HandlePendingToken
    \/ GetTokenError

\* parsing documents over the tag structure alphabet
Next == NextCommon \/ GetStructToken
Spec == Init /\ [][Next]_vars

\* the caller keeps calling next_event, and the loop of a call keeps
\* iterating: an iteration that can be taken is taken
SpecLive == Spec /\ WF_vars(Next)

\* parsing documents over the name space alphabet
NextNs == NextCommon \/ GetNsToken
SpecNs == Init /\ [][NextNs]_vars

\* content alphabet: comments, both kinds of character data, and the tags
\* and attributes between which they come
OrderTokens(span) ==
    {TokenOpen(span, "", "a", d, b) : d \in 1..2, b \in BOOLEAN}
    \cup {TokenClose(span, "", "a", 1),
          TokenAttribute(span, "", "k", "v"),
          TokenComment(span, <<"c1", "c2">>),
          TokenCharacters(span, "text"),
          TokenRawCharacters(span, "text"),
          TokenWhitespace(span)}

\* the history keeps the tokens that events are to come from
GetOrderToken ==
    GetToken(OrderTokens(NextSpan), MaxOrderTokens,
             {"Comment", "Characters", "RawCharacters", "TagOpen"})

\* parsing documents over the content alphabet
NextOrder == NextCommon \/ GetOrderToken
SpecOrder == Init /\ [][NextOrder]_vars

(***************************************************************************)
(* The lexers.  A character is a string of length one, a string of the     *)
(* program is a sequence of characters, and a position is the index of the *)
(* next character of `text` (Len(text) + 1 at the end of the input).        *)
(***************************************************************************)
\* Option<char>::None
NoChar == "EOF"

is_newline(ch) == ch = "\n"
is_hash(ch) == ch = "#"
is_quote(ch) == ch \in {"\"", "'"}
\* the letters of the inputs drawn here; no other name character is drawn
is_name_start(ch) == ch \in {"a", "r"}
is_name(ch) == is_name_start(ch)
\* char::is_whitespace on the characters drawn here
is_whitespace(ch) == ch \in {" ", "\n"}

\* results of the parser functions: Ok(None), Ok(Some((posn, token))), Err
LexNone == [kind |-> "none"]
LexSome(posn, token) == [kind |-> "token", posn |-> posn, val |-> token]
LexErr(type, span) == [kind |-> "error", val |-> [type |-> type, span |-> span]]
\* a read past the end of the text, whose outcome the source does not
\* define: a panic, or the result `res` of reading nothing there
LexUndefined(res) == [kind |-> "undefined", clamped |-> res]
LexPanic == [kind |-> "panic"]

(* the character stream of lexer_rs, as the parser functions use it *)
peek_at(posn) == IF posn \in 1..Len(text) THEN text[posn] ELSE NoChar
consumed_char(posn, ch) == posn + 1
get_text(start, end) ==
    IF end > Len(text) + 1 THEN SubSeq(text, start, Len(text))
    ELSE SubSeq(text, start, end - 1)

\* steps over characters while f(index, character) holds; the first test is
\* of the character handed in, the later ones of the characters of the text
do_while(posn, ch, f) ==
    IF ~f[0, ch] THEN [some |-> FALSE, posn |-> posn, start |-> posn, n |-> 0]
    ELSE LET Stop(stops) ==
                 IF stops = {} THEN posn + 1
                 ELSE CHOOSE e \in stops : \A o \in stops : e <= o
             Body(end) == [some |-> TRUE, posn |-> end, start |-> posn,
                           n |-> end - posn]
         IN Body(Stop({e \in (posn + 1)..(Len(text) + 1) :
                          e > Len(text) \/ ~f[e - posn, text[e]]}))

parse_whitespace(posn, ch) ==
    LET Body(r) ==
            IF ~r.some THEN LexNone
            ELSE LexSome(r.posn, TokenWhitespace(<<r.start, r.posn>>))
    IN Body(do_while(posn, ch, [n \in Nat, c \in STRING |-> is_whitespace(c)]))

StringNone == [some |-> FALSE]

parse_name(posn) ==
    IF peek_at(posn) = NoChar THEN StringNone
    ELSE LET Body(r) ==
                 IF ~r.some THEN StringNone
                 ELSE [some |-> TRUE, posn |-> r.posn,
                       s |-> get_text(r.start, r.posn)]
         IN Body(do_while(posn, peek_at(posn),
                          [n \in Nat, c \in STRING |-> 
                              \/ n = 0 /\ is_name_start(c)
                              \/ n > 0 /\ is_name(c)]))

parse_namespace_name_colon_ignored(posn) ==
    LET Body(r1) ==
            IF ~r1.some THEN StringNone
            ELSE [some |-> TRUE, posn |-> r1.posn, ns |-> <<>>, name |-> r1.s]
    IN Body(parse_name(posn))

parse_namespace_name(posn) ==
    LET Second(r1, r2) ==
            IF ~r2.some THEN StringNone
            ELSE [some |-> TRUE, posn |-> r2.posn, ns |-> r1.s, name |-> r2.s]
        Body(r1) ==
            IF ~r1.some THEN StringNone
            ELSE IF peek_at(r1.posn) = ":"
            THEN Second(r1, parse_name(consumed_char(r1.posn, ":")))
            ELSE [some |-> TRUE, posn |-> r1.posn, ns |-> <<>>, name |-> r1.s]
    IN Body(parse_name(posn))

\* parse_tag up to the brace: the hashes, the name and the token
parse_tag_token(posn, ch) ==
    LET Result(start, hash_count, r) ==
            IF peek_at(r.posn) = "{"
            THEN LexSome(consumed_char(r.posn, "{"),
                         TokenOpen(<<start, consumed_char(r.posn, "{")>>,
                                   r.ns, r.name, hash_count, TRUE))
            ELSE IF peek_at(r.posn) = "}"
            THEN LexSome(consumed_char(r.posn, "}"),
                         TokenClose(<<start, consumed_char(r.posn, "}")>>,
                                    r.ns, r.name, hash_count))
            ELSE LexSome(r.posn, TokenOpen(<<start, r.posn>>,
                                           r.ns, r.name, hash_count, FALSE))
        Name(h, r) ==
            IF ~r.some THEN LexErr("ExpectedTagName", <<h.start, h.posn>>)
            ELSE Result(h.start, h.n, r)
        Body(h) ==
            IF ~h.some THEN LexNone
            ELSE Name(h, parse_namespace_name(h.posn))
    IN Body(do_while(posn, ch, [n \in Nat, c \in STRING |-> is_hash(c)]))

parse_tag_unchecked(posn, ch) == parse_tag_token(posn, ch)

parse_tag(posn, ch) ==
    LET Body(res) ==
            IF /\ res.kind = "token"
               /\ peek_at(res.posn) # NoChar
               /\ ~is_whitespace(peek_at(res.posn))
            THEN LexErr("ExpectedWhitespaceAfterTag",
                        <<SpanStart(res.val.span), res.posn>>)
            ELSE res
    IN Body(parse_tag_token(posn, ch))

\* the hashes after a quote: at most hash_count of them are stepped over
RECURSIVE closing_hashes(_, _, _)
closing_hashes(hash_posn, i, hash_count) ==
    IF i < hash_count /\ is_hash(peek_at(hash_posn))
    THEN closing_hashes(consumed_char(hash_posn, "#"), i + 1, hash_count)
    ELSE [i |-> i, hash_posn |-> hash_posn]

\* the loop of parse_quoted_string
RECURSIVE quoted_string_loop(_, _, _, _)
quoted_string_loop(start, posn, quote_ch, hash_count) ==
    LET Quote(h) ==
            IF h.i < hash_count /\ peek_at(h.hash_posn) = NoChar
            THEN StringNone
            ELSE IF h.i = hash_count
            THEN [some |-> TRUE, posn |-> h.hash_posn,
                  s |-> get_text(start, posn)]
            ELSE quoted_string_loop(start, h.hash_posn, quote_ch, hash_count)
    IN IF peek_at(posn) = NoChar THEN StringNone
       ELSE IF is_newline(peek_at(posn)) /\ hash_count = 0 THEN StringNone
       ELSE IF peek_at(posn) = quote_ch
       THEN Quote(closing_hashes(consumed_char(posn, quote_ch), 0,
                                 hash_count))
       ELSE quoted_string_loop(start, consumed_char(posn, peek_at(posn)),
                               quote_ch, hash_count)

parse_quoted_string_hashes_ignored(posn, quote_ch, hash_count) ==
    quoted_string_loop(posn, posn, quote_ch, 0)

parse_quoted_string(posn, quote_ch, hash_count) ==
    quoted_string_loop(posn, posn, quote_ch, hash_count)

parse_string(posn) ==
    IF peek_at(posn) = NoChar THEN StringNone
    ELSE IF is_quote(peek_at(posn))
    THEN parse_quoted_string(consumed_char(posn, peek_at(posn)),
                             peek_at(posn), 0)
    ELSE IF is_whitespace(peek_at(posn)) THEN StringNone
    ELSE LET Body(r) == [some |-> TRUE, posn |-> r.posn,
                         s |-> get_text(posn, r.posn)]
         IN Body(do_while(posn, peek_at(posn),
                          [n \in Nat, c \in STRING |-> ~is_whitespace(c)]))

parse_attribute(posn, ch) ==
    LET Value(r, v) ==
            IF ~v.some
            THEN LexErr("ExpectedEquals",
                        SpanNewAt(consumed_char(r.posn, "=")))
            ELSE LexSome(v.posn, TokenAttribute(<<posn, v.posn>>,
                                                r.ns, r.name, v.s))
        Body(r) ==
            IF ~r.some THEN LexNone
            ELSE IF peek_at(r.posn) = NoChar
            THEN LexErr("UnexpectedEOF", <<posn, r.posn>>)
            ELSE IF peek_at(r.posn) # "="
            THEN LexErr("ExpectedEquals", <<posn, r.posn>>)
            ELSE Value(r, parse_string(consumed_char(r.posn, "=")))
    IN Body(parse_namespace_name(posn))

parse_character_string(start, ch0) ==
    LET raw == ch0 = "r"
        String(r) ==
            IF ~r.some THEN LexNone
            ELSE IF raw
            THEN LexSome(r.posn, TokenRawCharacters(<<start, r.posn>>, r.s))
            ELSE LexSome(r.posn, TokenCharacters(<<start, r.posn>>, r.s))
        Quote(posn, hash_count) ==
            IF ~is_quote(peek_at(posn)) THEN LexNone
            ELSE String(parse_quoted_string(
                            consumed_char(posn, peek_at(posn)),
                            peek_at(posn), hash_count))
        Hashes(posn, ch) ==
            IF is_hash(ch)
            THEN LET Body(h) == Quote(h.posn, h.n)
                 IN Body(do_while(posn, ch, [n \in Nat, c \in STRING |-> is_hash(c)]))
            ELSE Quote(posn, 0)
    IN IF raw
       THEN LET after_r == consumed_char(start, ch0)
            IN IF peek_at(after_r) = NoChar THEN LexNone
               ELSE IF /\ ~is_hash(peek_at(after_r))
                       /\ ~is_quote(peek_at(after_r))
               THEN LexNone
               ELSE Hashes(after_r, peek_at(after_r))
       ELSE Hashes(start, ch0)

\* one comment line: the accumulator with the line's text added, and the
\* position of the next line (some = FALSE for None)
parse_comment_line(acc, posn0, ch0) ==
    LET Line(comment_start, c) ==
            IF comment_start > Len(text)
            THEN [acc |-> Append(acc, <<comment_start, comment_start>>),
                  some |-> TRUE, posn |-> comment_start, undefined |-> TRUE]
            ELSE [acc |-> Append(acc, <<comment_start, c.posn>>),
                  some |-> TRUE,
                  posn |-> IF peek_at(c.posn) # NoChar
                           THEN consumed_char(c.posn, "\n") ELSE c.posn,
                  undefined |-> FALSE]
        Body(w) ==
            IF peek_at(w.posn) # ";"
            THEN [acc |-> acc, some |-> FALSE, posn |-> w.posn,
                  undefined |-> FALSE]
            ELSE Line(consumed_char(w.posn, ";"),
                      do_while(consumed_char(w.posn, ";"), peek_at(w.posn),
                               [n \in Nat, c \in STRING |-> ~is_newline(c)]))
    IN Body(do_while(posn0, ch0,
                     [n \in Nat, c \in STRING |-> 
                         ~is_newline(c) /\ is_whitespace(c)]))

\* lexer_rs fold over parse_comment_line: calls it while it returns a
\* position and a character is left
RECURSIVE fold(_, _, _, _, _)
fold(start, posn, ch, acc, n) ==
    LET Body(r) ==
            IF ~r.some
            THEN [some |-> n > 0, posn |-> posn, start |-> start,
                  acc |-> r.acc, undefined |-> FALSE]
            ELSE IF r.undefined \/ peek_at(r.posn) = NoChar
            THEN [some |-> TRUE, posn |-> r.posn, start |-> start,
                  acc |-> r.acc, undefined |-> r.undefined]
            ELSE fold(start, r.posn, peek_at(r.posn), r.acc, n + 1)
    IN Body(parse_comment_line(acc, posn, ch))

RECURSIVE comment_strings(_)
comment_strings(spans) ==
    IF spans = <<>> THEN <<>>
    ELSE <<get_text(spans[1][1], spans[1][2])>>
         \o comment_strings(Tail(spans))

parse_comment(posn, ch) ==
    LET Token_(r) == LexSome(r.posn, TokenComment(<<r.start, r.posn>>,
                                                  comment_strings(r.acc)))
        Body(r) ==
            IF ~r.some THEN LexNone
            ELSE IF r.undefined THEN LexUndefined(Token_(r))
            ELSE Token_(r)
    IN Body(fold(posn, posn, ch, <<>>, 0))

\* the parser functions of parse_fns, in their order
parse_fns(i, posn, ch) ==
    CASE i = 1 -> parse_whitespace(posn, ch)
      [] i = 2 -> parse_comment(posn, ch)
      [] i = 3 -> parse_character_string(posn, ch)
      [] i = 4 -> parse_tag(posn, ch)
      [] i = 5 -> parse_attribute(posn, ch)

\* lexer_rs parse: the first parser function that returns a token or an
\* error decides; none of them doing so is the error failed_to_parse
RECURSIVE parse_from(_, _, _)
parse_from(i, posn, ch) ==
    IF i > 5 THEN LexErr("UnexpectedCharacter", SpanNewAt(posn))
    ELSE LET Body(r) == IF r.kind = "none" THEN parse_from(i + 1, posn, ch)
                        ELSE r
         IN Body(parse_fns(i, posn, ch))

parse(posn) ==
    IF peek_at(posn) = NoChar THEN LexNone
    ELSE parse_from(1, posn, peek_at(posn))

(***************************************************************************)
(* Lexer of lexer.rs, which reads characters from a Reader through a one   *)
(* character read-ahead.  `pos` is the index of the next character that    *)
(* get_char returns: the position of the reader less the character held in *)
(* read_ahead.  Spans are given in these indices; errors carry no span.    *)
(***************************************************************************)
ReadErr(type) == [kind |-> "error", val |-> [type |-> type]]
ReadOk(pos, val) == [kind |-> "ok", pos |-> pos, val |-> val]

peek_char(pos) == peek_at(pos)

\* Read characters until EOF or non-whitespace
RECURSIVE skip_whitespace(_)
skip_whitespace(pos) ==
    IF peek_char(pos) # NoChar /\ is_whitespace(peek_char(pos))
    THEN skip_whitespace(pos + 1)
    ELSE pos

\* Read the string up to a newline, which is consumed and left out
RECURSIVE read_line(_, _)
read_line(pos, s) ==
    IF peek_char(pos) = NoChar THEN ReadOk(pos, s)
    ELSE IF is_newline(peek_char(pos)) THEN ReadOk(pos + 1, s)
    ELSE read_line(pos + 1, Append(s, peek_char(pos)))

\* the loop of read_name after its first character
RECURSIVE read_name_loop(_, _)
read_name_loop(pos, s) ==
    IF peek_char(pos) # NoChar /\ is_name(peek_char(pos))
    THEN read_name_loop(pos + 1, Append(s, peek_char(pos)))
    ELSE ReadOk(pos, s)

\* initial_ch is NoChar for None
read_name(pos, initial_ch) ==
    IF initial_ch # NoChar
    THEN IF ~is_name_start(initial_ch) THEN ReadErr("UnexpectedCharacter")
         ELSE read_name_loop(pos, <<initial_ch>>)
    ELSE IF peek_char(pos) = NoChar THEN ReadErr("UnexpectedEOF")
    ELSE IF ~is_name_start(peek_char(pos)) THEN ReadErr("UnexpectedCharacter")
    ELSE read_name_loop(pos + 1, <<peek_char(pos)>>)

read_namespace_name(pos, initial_ch) ==
    LET Second(name, r2) ==
            IF r2.kind = "error" THEN r2
            ELSE ReadOk(r2.pos, [ns |-> name, name |-> r2.val])
        Body(r) ==
            IF r.kind = "error" THEN r
            ELSE IF peek_char(r.pos) = ":"
            THEN Second(r.val, read_name(r.pos + 1, NoChar))
            ELSE ReadOk(r.pos, [ns |-> <<>>, name |-> r.val])
    IN Body(read_name(pos, initial_ch))

\* the number of '#' characters from pos on; EOF after them is an error
RECURSIVE read_hash_sequence(_, _)
read_hash_sequence(pos, hash_count) ==
    IF peek_char(pos) = NoChar THEN ReadErr("UnexpectedEOF")
    ELSE IF ~is_hash(peek_char(pos)) THEN ReadOk(pos, hash_count)
    ELSE read_hash_sequence(pos + 1, hash_count + 1)

read_tag(start, pos, hash_count) ==
    LET Check(res) ==
            IF /\ peek_char(res.pos) # NoChar
               /\ ~is_whitespace(peek_char(res.pos))
            THEN ReadErr("UnexpectedCharacter")
            ELSE res
        Body(r) ==
            IF r.kind = "error" THEN r
            ELSE IF peek_char(r.pos) = "{"
            THEN Check(ReadOk(r.pos + 1,
                              TokenOpen(<<start, r.pos + 1>>, r.val.ns,
                                        r.val.name, hash_count, TRUE)))
            ELSE IF peek_char(r.pos) = "}"
            THEN Check(ReadOk(r.pos + 1,
                              TokenClose(<<start, r.pos + 1>>, r.val.ns,
                                         r.val.name, hash_count)))
            ELSE Check(ReadOk(r.pos, TokenOpen(<<start, r.pos>>, r.val.ns,
                                               r.val.name, hash_count,
                                               FALSE)))
    IN Body(read_namespace_name(pos, NoChar))

\* `n` times the character '#'
Hashes(n) == [i \in 1..n |-> "#"]

\* the loop of read_quoted_string: pos is the character `ch` of the source
RECURSIVE read_quoted_string_loop(_, _, _, _)
read_quoted_string_loop(pos, result, quote_ch, hash_count) ==
    LET Quote(h) ==
            IF h.i = hash_count THEN ReadOk(h.hash_posn, result)
            ELSE IF peek_char(h.hash_posn) = NoChar
            THEN ReadErr("UnexpectedEOF")
            ELSE read_quoted_string_loop(
                     h.hash_posn, (result \o <<quote_ch>>) \o Hashes(h.i),
                     quote_ch, hash_count)
    IN IF peek_char(pos) = NoChar THEN ReadErr("UnexpectedEOF")
       ELSE IF peek_char(pos) # quote_ch
       THEN IF is_newline(peek_char(pos)) /\ hash_count = 0
            THEN ReadErr("UnexpectedNewlineInQuotedString")
            ELSE read_quoted_string_loop(pos + 1,
                                         Append(result, peek_char(pos)),
                                         quote_ch, hash_count)
       ELSE Quote(closing_hashes(pos + 1, 0, hash_count))

read_quoted_string(pos, quote_ch, hash_count) ==
    read_quoted_string_loop(pos, <<>>, quote_ch, hash_count)

\* the characters up to EOF or whitespace
RECURSIVE read_string_loop(_, _)
read_string_loop(pos, result) ==
    IF peek_char(pos) = NoChar \/ is_whitespace(peek_char(pos))
    THEN ReadOk(pos, result)
    ELSE read_string_loop(pos + 1, Append(result, peek_char(pos)))

read_string(pos) ==
    IF peek_char(pos) = NoChar THEN ReadErr("UnexpectedEOF")
    ELSE IF is_quote(peek_char(pos))
    THEN read_quoted_string(pos + 1, peek_char(pos), 0)
    ELSE read_string_loop(pos, <<>>)

\* pos is after initial_ch when there is one
read_attribute(start, pos, initial_ch) ==
    LET Value(r, v) ==
            IF v.kind = "error" THEN v
            ELSE ReadOk(v.pos, TokenAttribute(<<start, v.pos>>, r.val.ns,
                                              r.val.name, v.val))
        Body(r) ==
            IF r.kind = "error" THEN r
            ELSE IF peek_char(r.pos) = NoChar THEN ReadErr("UnexpectedEOF")
            ELSE IF peek_char(r.pos) # "="
            THEN ReadErr("ExpectedEquals")
            ELSE Value(r, read_string(r.pos + 1))
    IN Body(read_namespace_name(pos, initial_ch))

\* the comment lines from the first ';', which pos is after
RECURSIVE read_comment(_, _, _)
read_comment(start, pos, comment_strings_) ==
    LET Body(l) ==
            IF peek_char(skip_whitespace(l.pos)) # ";"
            THEN ReadOk(skip_whitespace(l.pos),
                        TokenComment(<<start, l.pos>>,
                                     Append(comment_strings_, l.val)))
            ELSE read_comment(start, skip_whitespace(l.pos) + 1,
                              Append(comment_strings_, l.val))
    IN Body(read_line(pos, <<>>))

\* a quoted string read as the token `tok` (characters or raw characters)
read_characters(start, pos, quote_ch, hash_count, raw) ==
    LET Body(s) ==
            IF s.kind = "error" THEN s
            ELSE IF raw
            THEN ReadOk(s.pos, TokenRawCharacters(<<start, s.pos>>, s.val))
            ELSE ReadOk(s.pos, TokenCharacters(<<start, s.pos>>, s.val))
    IN Body(read_quoted_string(pos, quote_ch, hash_count))

next_token_at(start) ==
    LET ch == peek_char(start)
        HashString(h) ==
            IF h.kind = "error" THEN h
            ELSE IF is_quote(peek_char(h.pos))
            THEN read_characters(start, h.pos + 1, peek_char(h.pos), h.val,
                                 FALSE)
            ELSE read_tag(start, h.pos, h.val)
        RawHashString(h) ==
            IF h.kind = "error" THEN h
            ELSE IF is_quote(peek_char(h.pos))
            THEN read_characters(start, h.pos + 1, peek_char(h.pos), h.val,
                                 TRUE)
            ELSE ReadErr("UnexpectedCharacter")
    IN IF ch = NoChar THEN ReadOk(start, TokenEof(SpanNewAt(start)))
       ELSE IF ch = ";" THEN read_comment(start, start + 1, <<>>)
       ELSE IF is_hash(ch) THEN HashString(read_hash_sequence(start, 0))
       ELSE IF is_quote(ch)
       THEN read_characters(start, start + 1, ch, 0, FALSE)
       ELSE IF ch = "r"
       THEN IF is_hash(peek_char(start + 1))
            THEN RawHashString(read_hash_sequence(start + 1, 0))
            ELSE IF is_quote(peek_char(start + 1))
            THEN read_characters(start, start + 2, peek_char(start + 1), 0,
                                 TRUE)
            ELSE read_attribute(start, start + 1, "r")
       ELSE IF is_name_start(ch) THEN read_attribute(start, start, NoChar)
       ELSE ReadErr("UnexpectedCharacter")

next_token(pos) == next_token_at(skip_whitespace(pos))

(***************************************************************************)
(* Lexing a text: the two lexers read the same text, each at its own pace  *)
(***************************************************************************)
\* the texts of at most `max` characters of `chars`
Texts(chars, max) == UNION {[1..n -> chars] : n \in 0..max}

\* what a read past the end of the text may do
Outcomes(res) ==
    IF res.kind = "undefined" THEN {LexPanic, res.clamped} ELSE {res}

\* a call of Lexer::next_token; the caller stops at an error and at EndOfFile
LexerNextToken ==
    /\ ~reader.done
    /\ LET Body(r) ==
               reader' =
                   IF r.kind = "error"
                   THEN [pos |-> reader.pos,
                         tokens |-> Append(reader.tokens, r),
                         done |-> TRUE]
                   ELSE [pos |-> r.pos,
                         tokens |-> Append(reader.tokens,
                                           [kind |-> "token", val |-> r.val]),
                         done |-> r.val.type = "EndOfFile"]
       IN Body(next_token(reader.pos))
    /\ UNCHANGED <<text, lexer_iter, unpopped, handed>>
    /\ UNCHANGED <<parser, ns_stack, fetched, source_eof, ret, events,
                   errored, opened, stashed, closed, received>>

\* a call of next() of the iterator over parse_fns; it returns None at the
\* end of the text, and the caller stops at an error
LexerIterNext ==
    /\ ~lexer_iter.done
    /\ \E r \in Outcomes(parse(lexer_iter.posn)) :
          lexer_iter' =
              IF r.kind = "token"
              THEN [posn |-> r.posn,
                    tokens |-> Append(lexer_iter.tokens,
                                      [kind |-> "token", val |-> r.val]),
                    done |-> FALSE]
              ELSE [posn |-> lexer_iter.posn,
                    tokens |-> IF r.kind = "none" THEN lexer_iter.tokens
                               ELSE Append(lexer_iter.tokens, r),
                    done |-> TRUE]
    /\ UNCHANGED <<text, reader, unpopped, handed>>
    /\ UNCHANGED <<parser, ns_stack, fetched, source_eof, ret, events,
                   errored, opened, stashed, closed, received>>

NextLex == LexerNextToken \/ LexerIterNext

InitLex(chars, max) ==
    /\ parser = ParserDefault
    /\ ns_stack = NamespaceStackNew(NamespaceNew(TRUE))
    /\ fetched = 0
    /\ source_eof = FALSE
    /\ ret = [kind |-> "init", val |-> [type |-> "None"]]
    /\ events = <<>>
    /\ errored = FALSE
    /\ opened = <<>>
    /\ stashed = [tag_depth |-> 0, tag_stack |-> <<>>, events |-> 0,
                  fetched |-> 0, tag |-> NoneTok]
    /\ closed = <<>>
    /\ received = <<>>
    /\ text \in Texts(chars, max)
    /\ reader = ReaderNew
    /\ lexer_iter = LexerIterNew
    /\ unpopped = 0
    /\ handed = <<>>

\* quoted strings with their padding hashes
StringChars == {"#", "\"", "a", "\n"}
SpecStrings == InitLex(StringChars, MaxString) /\ [][NextLex]_vars

\* tags and what follows them
TagChars == {"#", "a", ":", "{", "}", " ", "="}
SpecTags == InitLex(TagChars, MaxTag) /\ [][NextLex]_vars

\* comment lines
CommentChars == {";", " ", "\n", "a"}
SpecComments == InitLex(CommentChars, MaxComment) /\ [][NextLex]_vars

\* every kind of token
AllChars == {"#", "\"", "'", "a", "r", ":", "{", "}", " ", "\n", ";", "="}
SpecLex == InitLex(AllChars, MaxText) /\ [][NextLex]_vars

(***************************************************************************)
(* A client that calls the name space stack itself: push_frame, pop_frame  *)
(* and add_ns in any order.  `ret` holds the call made last and whether it *)
(* returned.                                                               *)
(***************************************************************************)
StackPushFrame ==
    /\ Running
    /\ Len(ns_stack.frames) < MaxFrames
    /\ ns_stack' = push_frame(ns_stack)
    /\ ret' = [kind |-> "returned", val |-> [type |-> "push_frame"]]
    /\ unpopped' = unpopped + 1
    /\ UNCHANGED <<parser, fetched, source_eof, events, errored, opened,
                   stashed, closed, received, text, reader, lexer_iter,
                   handed>>

StackPopFrame ==
    /\ Running
    /\ IF pop_frame_panics(ns_stack)
       THEN /\ ret' = [kind |-> "panic", val |-> [type |-> "pop_frame"]]
            /\ UNCHANGED ns_stack
       ELSE /\ ret' = [kind |-> "returned", val |-> [type |-> "pop_frame"]]
            /\ ns_stack' = pop_frame(ns_stack)
    /\ unpopped' = IF unpopped > 0 THEN unpopped - 1 ELSE 0
    /\ UNCHANGED <<parser, fetched, source_eof, events, errored, opened,
                   stashed, closed, received, text, reader, lexer_iter,
                   handed>>

\* add_ns unwraps the last frame (add_mapping_by_id)
StackAddNs ==
    /\ Running
    /\ \E prefix \in {"", "p"}, uri \in {"u", "w"} :
          IF Len(ns_stack.frames) = 0
          THEN /\ ret' = [kind |-> "panic", val |-> [type |-> "add_ns"]]
               /\ UNCHANGED ns_stack
          ELSE /\ ret' = [kind |-> "returned", val |-> [type |-> "add_ns"]]
               /\ ns_stack' = add_ns(ns_stack, prefix, uri)
    /\ UNCHANGED <<parser, fetched, source_eof, events, errored, opened,
                   stashed, closed, received, text, reader, lexer_iter,
                   unpopped, handed>>

NextStack == StackPushFrame \/ StackPopFrame \/ StackAddNs
SpecStack == Init /\ [][NextStack]_vars


(***************************************************************************)
(* Helpers for the properties                                              *)
(***************************************************************************)
\* the number of frames of a name space stack before parsing starts
InitialFrames == 1

IsEvent(e, type) == e.type = type
LastEvent == events[Len(events)]
EventIndices(type) == {i \in 1..Len(events) : events[i].type = type}

\* the events evs as a nesting: ok is FALSE once an EndElement did not carry
\* the Name of the innermost open StartElement, open lists the Names of the
\* StartElements not yet closed, outermost first
RECURSIVE Nesting(_)
Nesting(evs) ==
    IF evs = <<>> THEN [ok |-> TRUE, open |-> <<>>]
    ELSE LET before == Nesting(SubSeq(evs, 1, Len(evs) - 1))
             e == evs[Len(evs)]
         IN  IF e.type = "StartElement"
             THEN [before EXCEPT !.open = Append(@, e.tag.name)]
             ELSE IF e.type = "EndElement"
             THEN IF before.open # <<>>
                     /\ before.open[Len(before.open)] = e.name
                  THEN [before EXCEPT !.open = SubSeq(@, 1, Len(@) - 1)]
                  ELSE [ok |-> FALSE, open |-> <<>>]
             ELSE before

\* the run reached EndDocument and no call returned an error
Successful == parser.finished /\ ~errored

(***************************************************************************)
(* C1: in a run that reaches EndDocument without an error, the            *)
(* StartElement and EndElement events are balanced: every EndElement       *)
(* carries the Name of the innermost open StartElement, and none is left   *)
(* open at the end.                                                        *)
(***************************************************************************)
C1_BalancedElements ==
    Successful => Nesting(events) = [ok |-> TRUE, open |-> <<>>]

\* a successful run with an element nested in an element of another name
C1_Witness ==
    /\ Successful
    /\ Len(events) >= 6
    /\ events[2].type = "StartElement" /\ events[3].type = "StartElement"
    /\ events[2].tag.name # events[3].tag.name
    /\ events[4].type = "EndElement"

(***************************************************************************)
(* C2: the first event is StartDocument, returned before any token is     *)
(* fetched; EndDocument is the last event of a run that finished; neither  *)
(* occurs anywhere else.                                                   *)
(***************************************************************************)
C2_DocumentEvents ==
    /\ \A i \in 1..Len(events) :
          /\ (events[i].type = "StartDocument") <=> (i = 1)
          /\ (events[i].type = "EndDocument") => (i = Len(events))
    /\ parser.finished <=>
          (events # <<>> /\ LastEvent.type = "EndDocument")
    /\ (events = <<>>) => (fetched = 0)
    /\ (Len(events) = 1 /\ ret.kind = "event") => (fetched = 0)

\* a successful run with an element: StartDocument ... EndDocument
C2_Witness ==
    /\ Successful
    /\ Len(events) >= 4
    /\ LastEvent.type = "EndDocument"

(***************************************************************************)
(* C3: once EndDocument has been returned, every next_event call returns  *)
(* the error BeyondEndOfTokens and changes nothing: no event, no token     *)
(* fetched, parser and name space stack as they were.                      *)
(***************************************************************************)
C3_BeyondEnd ==
    [][parser.finished =>
          /\ ret'.kind = "error" /\ ret'.val = ErrBeyondEndOfTokens
          /\ UNCHANGED <<parser, ns_stack, fetched, source_eof, events>>]_vars

\* a call after EndDocument has returned BeyondEndOfTokens
C3_Witness ==
    /\ parser.finished
    /\ ret.kind = "error" /\ ret.val.type = "BeyondEndOfTokens"

(***************************************************************************)
(* C4: the name space stack has one frame per element of the element      *)
(* stack on top of the frames it started with; after EndDocument it has    *)
(* the frames it started with.                                             *)
(***************************************************************************)
C4_FramePerElement ==
    /\ BetweenCalls =>
          Len(ns_stack.frames) = InitialFrames + Len(parser.tag_stack)
    /\ parser.finished => Len(ns_stack.frames) = InitialFrames

\* after EndDocument of a document with nested elements
C4_Witness ==
    /\ parser.finished
    /\ Cardinality(EventIndices("EndElement")) >= 2
    /\ \E i \in EventIndices("StartElement") :
          (i + 1) \in EventIndices("StartElement")

(***************************************************************************)
(* Name space declarations on an element                                   *)
(***************************************************************************)
\* Name::new's lookup of a prefix: the uri id the prefix resolves to, NoId if
\* the prefix is not interned or has no mapping in any frame
ResolvePrefix(ns, prefix) ==
    LET Mapped(p_id) == IF p_id = NoId THEN NoId ELSE find_mapping(ns, p_id)
    IN  Mapped(find_prefix_id(ns, prefix))

Prefixes == {"", "p", "q", "xml", "xmlns"}

\* positions in attributes of the attributes recorded as xmlns:<declared>;
\* xmlns='u' is recorded as xmlns:xmlns
Declarations(ns, attributes, declared) ==
    {k \in 1..Len(attributes) :
        /\ prefix_str(ns, attributes[k].name.prefix) = "xmlns"
        /\ name_str(ns, attributes[k].name.name) = declared}

LastOf(S) == CHOOSE k \in S : \A j \in S : j <= k

\* the step that ends attribute accumulation and resolves the tag
ElementStarts ==
    /\ parser.start_element_building
    /\ ~parser'.start_element_building
    /\ Len(parser.tag_stack) > 0

\* the step that adds an attribute to the element being built
AttributeAdded ==
    /\ parser.start_element_building
    /\ Len(parser'.tag_stack) = Len(parser.tag_stack)
    /\ Len(parser.tag_stack) > 0
    /\ Len(Top(parser'.tag_stack).attributes)
          = Len(Top(parser.tag_stack).attributes) + 1

IsStartElement(res) == res.kind = "event" /\ res.val.type = "StartElement"

\* C5 as stated: in XML mode every xmlns:p='u' among the attributes of an
\* element with tag p:name makes the StartElement's Name carry uri u
C5_AnyDeclarationResolvesTag ==
    [][ElementStarts /\ uses_xmlns(ns_stack) =>
        LET elt == Top(parser.tag_stack)
        IN  elt.open_tag.prefix \notin {"", "xmlns"} =>
            \A k \in Declarations(ns_stack, elt.attributes,
                                  elt.open_tag.prefix) :
                /\ IsStartElement(ret')
                /\ uri_str(ns_stack', ret'.val.tag.name.uri)
                      = elt.attributes[k].value]_vars

\* C5: in XML mode, when the attributes of an element with tag p:name declare
\* p, the element's StartElement is produced and its Name has prefix p and
\* the uri of the last xmlns:p declaration among those attributes
C5_LastDeclarationResolvesTag ==
    [][ElementStarts /\ uses_xmlns(ns_stack) =>
        LET elt == Top(parser.tag_stack)
            decls == Declarations(ns_stack, elt.attributes,
                                  elt.open_tag.prefix)
        IN  (elt.open_tag.prefix \notin {"", "xmlns"} /\ decls # {}) =>
                /\ IsStartElement(ret')
                /\ prefix_str(ns_stack', ret'.val.tag.name.prefix)
                      = elt.open_tag.prefix
                /\ name_str(ns_stack', ret'.val.tag.name.name)
                      = elt.open_tag.name
                /\ uri_str(ns_stack', ret'.val.tag.name.uri)
                      = elt.attributes[LastOf(decls)].value
                /\ ret'.val.tag.attributes = elt.attributes]_vars

\* a StartElement for p:a with uri u, declared by its own attribute, whose
\* prefix had no binding when the open tag was handled
C5_Witness ==
    /\ uses_xmlns(ns_stack)
    /\ IsStartElement(ret)
    /\ prefix_str(ns_stack, ret.val.tag.name.prefix) = "p"
    /\ uri_str(ns_stack, ret.val.tag.name.uri) = "u"
    /\ Declarations(ns_stack, ret.val.tag.attributes, "p") # {}
    /\ Len(opened) > 0
    /\ ResolvePrefix(Top(opened).ns, "p") = NoId

\* the xmlns attribute as recorded: prefix xmlns, name xmlns, the XMLNS uri
IsXmlnsName(ns, name) ==
    /\ prefix_str(ns, name.prefix) = "xmlns"
    /\ name_str(ns, name.name) = "xmlns"
    /\ uri_str(ns, name.uri) = XmlnsUri

\* adding xmlns='u' binds the empty prefix to u in the top frame only and
\* records the attribute under the XMLNS name
DefaultDeclared ==
    AttributeAdded /\ uses_xmlns(ns_stack) =>
        LET attr == Top(parser'.tag_stack).attributes
                        [Len(Top(parser'.tag_stack).attributes)]
            n == Len(ns_stack.frames)
        IN  (/\ prefix_str(ns_stack', attr.name.prefix) = "xmlns"
             /\ name_str(ns_stack', attr.name.name) = "xmlns") =>
                /\ IsXmlnsName(ns_stack', attr.name)
                /\ Len(ns_stack'.frames) = n
                /\ SubSeq(ns_stack'.frames, 1, n - 1)
                      = SubSeq(ns_stack.frames, 1, n - 1)
                /\ frame_find_mapping(ns_stack'.frames[n], 0) # NoId
                /\ uri_str(ns_stack',
                           frame_find_mapping(ns_stack'.frames[n], 0))
                      = attr.value

C7_DeclarationsScoped ==
    [][Len(parser'.tag_stack) < Len(parser.tag_stack) =>
        /\ IsEvent(ret'.val, "EndElement")
        /\ \A prefix \in Prefixes :
              ResolvePrefix(ns_stack', prefix)
                  = ResolvePrefix(Top(opened).ns, prefix)]_vars

\* an element that declared p as w has just been closed inside an element
\* that declared p as u, and p resolves to u again
C7_Witness ==
    /\ IsEvent(ret.val, "EndElement")
    /\ Len(events) >= 4
    /\ IsEvent(events[Len(events) - 1], "StartElement")
    /\ \E k \in Declarations(ns_stack, events[Len(events) - 1].tag.attributes,
                             "p") :
          events[Len(events) - 1].tag.attributes[k].value = "w"
    /\ ResolvePrefix(ns_stack, "p") # NoId
    /\ uri_str(ns_stack, ResolvePrefix(ns_stack, "p")) = "u"

(***************************************************************************)
(* Tag depth: opening, implicit closing, boxes                             *)
(***************************************************************************)
\* the next step handles the pending open tag
HandlingOpenTag ==
    /\ Running /\ LoopHead(parser) = "handle"
    /\ Dispatch(parser) = "open_tag"

\* the element handle_open_tag pushes for the pending open tag
OpenedElement ==
    [parent_depth |-> parser.tag_depth, open_tag |-> parser.pending_open_tag,
     tag_name |-> NameNone, attributes |-> <<>>]

\* the step pushes exactly the pending open tag's element and its frame
OpensPending ==
    /\ ret'.kind = "continue"
    /\ parser'.tag_stack = Append(parser.tag_stack, OpenedElement)
    /\ parser'.start_element_building
    /\ parser'.pending_open_tag = NoneTok
    /\ Len(ns_stack'.frames) = Len(ns_stack.frames) + 1

\* C8: a pending open tag of depth tag_depth + 1 opens its element; one of a
\* greater depth makes next_event return UnexpectedTagIndent with the tag's
\* span and the expected depth tag_depth + 1, and pushes nothing
C8_OpenOrIndentError ==
    [][HandlingOpenTag =>
        LET d == parser.pending_open_tag.extra.depth
            t == parser.tag_depth
        IN  /\ d = t + 1 => OpensPending
            /\ d > t + 1 =>
                 /\ ret' = Err(ErrUnexpectedTagIndent(
                                   parser.pending_open_tag.span, t + 1))
                 /\ parser'.tag_stack = parser.tag_stack
                 /\ parser'.tag_depth = t
                 /\ ns_stack' = ns_stack]_vars

\* a tag of depth 3 directly inside an element of depth 1 was refused with
\* expected depth 2
C8_Witness ==
    /\ ret.kind = "error"
    /\ ret.val.type = "UnexpectedTagIndent"
    /\ ret.val.depth = 2
    /\ ret.val.span = <<2 * fetched - 1, 2 * fetched>>
    /\ Len(parser.tag_stack) = 1
    /\ parser.tag_depth = 1

\* C9: a pending open tag of depth d with 1 <= d <= tag_depth closes the
\* innermost element in each step, without fetching a token and staying
\* pending; when it finally opens, exactly t - d + 1 EndElement events have
\* been produced since it was received with tag_depth t, for the elements
\* that were innermost then, innermost first, no token was fetched, and its
\* element takes the stack position and parent depth of the last one closed
C9_ImplicitClose ==
    [][HandlingOpenTag =>
        LET d == parser.pending_open_tag.extra.depth
            t == parser.tag_depth
            n == stashed.tag_depth - d + 1
            was == stashed.tag_stack
        IN  /\ (1 <= d /\ d <= t) =>
                 /\ ret' = OkSome(EventEndElement(
                               SpanNewAt(SpanStart(parser.pending_open_tag.span)),
                               Top(parser.tag_stack).tag_name))
                 /\ parser'.tag_stack = Pop(parser.tag_stack)
                 /\ parser'.tag_depth = Top(parser.tag_stack).parent_depth
                 /\ parser'.pending_open_tag = parser.pending_open_tag
                 /\ fetched' = fetched
            /\ (d = t + 1 /\ 1 <= d /\ d <= stashed.tag_depth) =>
                 /\ OpensPending
                 /\ fetched' = stashed.fetched
                 /\ Len(events) = stashed.events + n
                 /\ n <= Len(was)
                 /\ \A j \in 1..n :
                       events[stashed.events + j]
                           = EventEndElement(
                               SpanNewAt(SpanStart(parser.pending_open_tag.span)),
                               was[Len(was) - j + 1].tag_name)
                 /\ parser.tag_stack = SubSeq(was, 1, Len(was) - n)
                 /\ Top(parser'.tag_stack).parent_depth = d - 1
                 /\ was[Len(was) - n + 1].parent_depth = d - 1]_vars

\* a tag of depth 1 received at tag_depth 2 has closed two elements and has
\* just been opened, with no token fetched since it was received
C9_Witness ==
    /\ ret.kind = "continue"
    /\ parser.start_element_building
    /\ Len(parser.tag_stack) = 1
    /\ Top(parser.tag_stack).attributes = <<>>
    /\ Top(parser.tag_stack).open_tag.extra.depth = 1
    /\ stashed.tag_depth = 2
    /\ Len(stashed.tag_stack) = 2
    /\ Len(events) = stashed.events + 2
    /\ fetched = stashed.fetched
    /\ IsEvent(LastEvent, "EndElement")

\* C10: between calls tag_depth is 0 while a boxed element is the innermost
\* open element, so only depth 1 opens directly inside it; opening a boxed
\* tag sets tag_depth to 0; popping a boxed element restores the tag_depth of
\* just before its opener was handled, one less than the opener's depth
C10_BoxedDepth ==
    /\ [](BetweenCalls /\ Len(parser.tag_stack) > 0
             /\ Top(parser.tag_stack).open_tag.extra.boxed
          => parser.tag_depth = 0)
    /\ [][/\ (HandlingOpenTag /\ Len(parser'.tag_stack) > Len(parser.tag_stack)
                 /\ parser.pending_open_tag.extra.boxed)
              => parser'.tag_depth = 0
          /\ (HandlingOpenTag /\ Len(parser.tag_stack) > 0
                 /\ Top(parser.tag_stack).open_tag.extra.boxed)
              => (Len(parser'.tag_stack) > Len(parser.tag_stack)
                     <=> parser.pending_open_tag.extra.depth = 1)
          /\ (Len(parser'.tag_stack) < Len(parser.tag_stack)
                 /\ Top(parser.tag_stack).open_tag.extra.boxed)
              => /\ parser'.tag_depth = Top(opened).tag_depth
                 /\ parser'.tag_depth
                       = Top(parser.tag_stack).open_tag.extra.depth - 1
         ]_vars

\* a boxed element of depth 2 was closed by its close tag and a tag of depth 2
\* has just been opened as its sibling
C10_Witness ==
    /\ ret.kind = "continue"
    /\ parser.start_element_building
    /\ Len(parser.tag_stack) = 2
    /\ Top(parser.tag_stack).open_tag.extra.depth = 2
    /\ Top(parser.tag_stack).attributes = <<>>
    /\ Len(events) = stashed.events
    /\ IsEvent(LastEvent, "EndElement")
    /\ SpanStart(LastEvent.span) # SpanEnd(LastEvent.span)
    /\ IsEvent(events[Len(events) - 1], "StartElement")

(***************************************************************************)
(* Close tags                                                              *)
(***************************************************************************)
\* the next step handles the pending close tag
HandlingCloseTag ==
    /\ Running /\ LoopHead(parser) = "handle"
    /\ Dispatch(parser) = "close_tag"

\* position in stack of the innermost boxed element, 0 if there is none
BoxIndex(stack) ==
    LET boxes == {i \in 1..Len(stack) : stack[i].open_tag.extra.boxed}
    IN  IF boxes = {} THEN 0 ELSE CHOOSE i \in boxes : \A j \in boxes : j <= i

\* C11: with a close tag pending and k elements open inside the innermost
\* boxed element, each step returns the EndElement of the innermost element
\* without fetching a token: for k > 0 with tag_depth > 0, a zero-width span
\* and the close tag pending again, for k = 0 with tag_depth 0, the close
\* tag's span and the boxed element popped; by then exactly the descendants
\* open when the tag was received have been closed, innermost first
C11_CloseTagClosesBox ==
    [][HandlingCloseTag /\ BoxIndex(parser.tag_stack) > 0 =>
        LET k == Len(parser.tag_stack) - BoxIndex(parser.tag_stack)
            close_tag == parser.pending_close_tag
            was == stashed.tag_stack
            k0 == Len(was) - BoxIndex(was)
        IN  /\ fetched' = fetched
            /\ parser'.tag_stack = Pop(parser.tag_stack)
            /\ k > 0 =>
                 /\ parser.tag_depth > 0
                 /\ ret' = OkSome(EventEndElement(
                               SpanNewAt(SpanStart(close_tag.span)),
                               Top(parser.tag_stack).tag_name))
                 /\ parser'.pending_close_tag = close_tag
            /\ k = 0 =>
                 /\ parser.tag_depth = 0
                 /\ ret' = OkSome(EventEndElement(close_tag.span,
                               Top(parser.tag_stack).tag_name))
                 /\ parser'.pending_close_tag = NoneTok
                 /\ fetched = stashed.fetched
                 /\ BoxIndex(was) > 0
                 /\ parser.tag_stack = SubSeq(was, 1, BoxIndex(was))
                 /\ Len(events') = stashed.events + k0 + 1
                 /\ \A j \in 1..(k0 + 1) :
                       /\ IsEvent(events'[stashed.events + j], "EndElement")
                       /\ events'[stashed.events + j].name
                             = was[Len(was) - j + 1].tag_name]_vars

\* a close tag received with two elements open inside a box has produced
\* three EndElement events, the last with the close tag's span
C11_Witness ==
    /\ IsEvent(ret.val, "EndElement")
    /\ SpanStart(ret.val.span) # SpanEnd(ret.val.span)
    /\ Len(stashed.tag_stack) = 3
    /\ stashed.tag_stack[1].open_tag.extra.boxed
    /\ stashed.tag_depth = 2
    /\ Len(events) = stashed.events + 3
    /\ fetched = stashed.fetched
    /\ parser.tag_stack = <<>>

\* close tags that differ from close_tag in name, depth or both
CloseVariants(close_tag) ==
    {[close_tag EXCEPT !.name = n, !.extra = TagExtra(d, FALSE)] :
        n \in {close_tag.name, NameNone} \cup
              {parser.tag_stack[i].tag_name : i \in 1..Len(parser.tag_stack)},
        d \in 1..(MaxDepth + 1)}

C13_BoxedNeedsCloseTag ==
    parser.finished =>
        \A i \in 1..Len(closed) :
            closed[i].boxed => closed[i].by = "close_tag"

(***************************************************************************)
(* Attribute accumulation                                                  *)
(***************************************************************************)
\* number, in the order of the source, of the token with this span
TokenNumber(span) == SpanEnd(span) \div 2

\* C14: a StartElement is returned only by the step that handles the first
\* token that is not an Attribute after the element's open tag; it lists
\* exactly the Attribute tokens handed out since the open tag, in order, and
\* the token that triggered it is pending and is handled in the next step
C14_StartElementAttributes ==
    [][/\ (IsStartElement(ret') /\ events' # events) => ElementStarts
       /\ (ElementStarts /\ IsStartElement(ret')) =>
            LET attrs == ret'.val.tag.attributes
                n == Len(received') - 1
            IN  /\ n >= 0
                /\ ~is_attribute(received'[n + 1])
                /\ \A i \in 1..n : is_attribute(received'[i])
                /\ TokenNumber(Top(parser.tag_stack).open_tag.span) + n + 1
                      = fetched'
                /\ Len(attrs) = n
                /\ \A i \in 1..n :
                      /\ attrs[i].value = received'[i].contents[3]
                      /\ name_str(ns_stack', attrs[i].name.name)
                            = received'[i].contents[2]
                /\ parser'.pending_token = received'[n + 1]
                /\ LoopHead(parser') = "handle"
                /\ Dispatch(parser') = "pending_token"]_vars

\* the element on top of the stack was opened by the latest open tag handed
\* out and every token handed out since then is an Attribute
Accumulating ==
    /\ Len(parser.tag_stack) > 0
    /\ \A i \in 1..Len(received) : is_attribute(received[i])
    /\ TokenNumber(Top(parser.tag_stack).open_tag.span) + Len(received)
          = fetched

\* the next step fetches a token from the token source
FetchingToken ==
    /\ Running /\ LoopHead(parser) = "handle"
    /\ Dispatch(parser) = "get_token"

\* C15: an Attribute token handed to the parser is added to the innermost
\* element (or refused because its name does not resolve) exactly when that
\* element is still accumulating the attributes of the latest open tag; in
\* any other state the result is UnexpectedAttribute with the token's span,
\* prefix and name, and the element stack and name space stack are unchanged
C15_AttributeOnlyWhileBuilding ==
    FetchingToken =>
        /\ parser.start_element_building <=> Accumulating
        /\ \A t \in {tok \in NsTokens(NextSpan) : is_attribute(tok)} :
              LET Handled(out) ==
                      IF Accumulating
                      THEN /\ out.parser.start_element_building
                           /\ Len(out.parser.tag_stack) = Len(parser.tag_stack)
                           /\ \/ /\ out.res = OkNone
                                 /\ Len(Top(out.parser.tag_stack).attributes)
                                     = Len(Top(parser.tag_stack).attributes) + 1
                              \/ /\ out.res.kind = "error"
                                 /\ out.res.val.type = "MarkupError"
                                 /\ out.res.val.span = t.span
                                 /\ out.parser.tag_stack = parser.tag_stack
                      ELSE /\ out.res = Err(ErrUnexpectedAttribute(t.span,
                                     t.contents[1], t.contents[2]))
                           /\ out.parser.tag_stack = parser.tag_stack
                           /\ out.ns = ns_stack
              IN  Handled(handle_token(parser, ns_stack, t))

\* an Attribute token after content of an element was refused with its span
C15_Witness ==
    /\ ret.kind = "error"
    /\ ret.val.type = "UnexpectedAttribute"
    /\ ret.val.span = <<2 * fetched - 1, 2 * fetched>>
    /\ fetched = 3
    /\ Len(parser.tag_stack) = 1
    /\ Top(parser.tag_stack).attributes = <<>>
    /\ IsEvent(LastEvent, "Content")

\* C16: a Whitespace token handed to the parser, in whatever state, yields no
\* event and leaves start_element_building, the element stack, tag_depth,
\* the pending items and the name space stack as they were
C16_WhitespaceDropped ==
    FetchingToken =>
        LET Dropped(out) ==
                /\ out.res = OkNone
                /\ out.parser.start_element_building
                      = parser.start_element_building
                /\ out.parser.tag_stack = parser.tag_stack
                /\ out.parser.tag_depth = parser.tag_depth
                /\ out.parser.pending_eof = parser.pending_eof
                /\ out.parser.pending_open_tag = parser.pending_open_tag
                /\ out.parser.pending_close_tag = parser.pending_close_tag
                /\ out.parser.pending_token = parser.pending_token
                /\ out.ns = ns_stack
        IN  Dropped(handle_token(parser, ns_stack, TokenWhitespace(NextSpan)))

\* number of elements whose StartElement was returned and whose EndElement
\* was not
OpenElements ==
    Cardinality(EventIndices("StartElement"))
        - Cardinality(EventIndices("EndElement"))

\* C17: whenever next_event returns a Content event an element is open
C17_ContentWithinElement ==
    (ret.kind = "event" /\ IsEvent(ret.val, "Content")) => OpenElements >= 1

\* positions in events of the StartElement events returned while no element
\* was open
TopLevelStarts ==
    {i \in EventIndices("StartElement") :
        Cardinality({j \in EventIndices("StartElement") : j < i})
            = Cardinality({j \in EventIndices("EndElement") : j < i})}

\* C18: a run that has reached EndDocument without an error has returned
\* exactly one StartElement while no element was open
C18_OneTopLevelElement ==
    Successful => Cardinality(TopLevelStarts) = 1

(***************************************************************************)
(* End of file and errors                                                  *)
(***************************************************************************)
\* C19: once the token source has handed out EndOfFile the parser never asks
\* it for a token again; with the end of file pending each step pops the
\* innermost element and returns its EndElement with a zero-width span at the
\* end of the EndOfFile token, until no element is open, and then EndDocument
\* is returned
C19_AfterEndOfFile ==
    /\ [](source_eof => ~FetchingToken)
    /\ [][/\ source_eof => fetched' = fetched
          /\ (Running /\ LoopHead(parser) = "handle" /\ parser.pending_eof) =>
                IF Len(parser.tag_stack) > 0
                THEN /\ ret' = OkSome(EventEndElement(
                                   SpanNewAt(2 * fetched),
                                   Top(parser.tag_stack).tag_name))
                     /\ parser'.tag_stack = Pop(parser.tag_stack)
                     /\ parser'.pending_eof
                ELSE /\ ret'.kind = "continue"
                     /\ parser'.end_emitted
                     /\ LoopHead(parser') = "end_document"
          /\ (Running /\ LoopHead(parser) = "end_document") =>
                /\ ret' = OkSome(EventEndDocument(SpanNewAt(2 * fetched)))
                /\ source_eof
                /\ parser.tag_stack = <<>>]_vars

\* end of file arrived with two elements open: two EndElement events with a
\* zero-width span at the end of the last token, then EndDocument
C19_Witness ==
    /\ parser.finished /\ source_eof
    /\ Len(events) >= 6
    /\ IsEvent(LastEvent, "EndDocument")
    /\ IsEvent(events[Len(events) - 1], "EndElement")
    /\ IsEvent(events[Len(events) - 2], "EndElement")
    /\ events[Len(events) - 1].span = SpanNewAt(2 * fetched)
    /\ events[Len(events) - 2].span = SpanNewAt(2 * fetched)
    /\ Len(closed) = 2
    /\ closed[1].by = "eof" /\ closed[2].by = "eof"

\* C20: once next_event has returned an error no later call returns an event
C20_StopsAtFirstError ==
    [][errored => ret'.kind # "event"]_vars

(***************************************************************************)
(* Names that do not resolve                                               *)
(***************************************************************************)
UnmappedAt(span) == Err(ErrMarkup(span, "UnmappedPrefix"))

\* the attribute token is a name space declaration, which Attribute::new
\* resolves under the prefix xmlns after declaring
IsDeclaration(t) ==
    /\ uses_xmlns(ns_stack)
    /\ \/ t.contents[1] = "xmlns"
       \/ t.contents[1] = "" /\ t.contents[2] = "xmlns"

\* what handling an Attribute or TagClose token does when its prefix has no
\* binding, and that it does so only then
UnresolvedTokenRefused ==
    FetchingToken =>
        \A t \in NsTokens(NextSpan) :
            LET unbound == ResolvePrefix(ns_stack, t.contents[1]) = NoId
                Refused(out) ==
                    /\ out.res = UnmappedAt(t.span)
                    /\ out.parser.tag_stack = parser.tag_stack
                    /\ out.parser.pending_close_tag = NoneTok
                Handled(out) ==
                    IF IsDeclaration(t) THEN out.res = OkNone
                    ELSE IF unbound THEN Refused(out)
                    ELSE out.res = OkNone
            IN  \/ /\ is_attribute(t) /\ parser.start_element_building
                   /\ Handled(handle_token(parser, ns_stack, t))
                \/ /\ t.type = "TagClose" /\ ~parser.start_element_building
                   /\ LET Closed(out) == IF unbound THEN Refused(out)
                                         ELSE out.res = OkNone
                      IN  Closed(handle_token(parser, ns_stack, t))
                \/ /\ t.type # "TagClose" \/ parser.start_element_building
                   /\ ~is_attribute(t) \/ ~parser.start_element_building

HashesAt(p, n) == \A i \in 0..(n - 1) : p + i <= Len(text) /\ text[p + i] = "#"
\* the number of '#' characters that the text has from p on
HashRun(p) == Cardinality({k \in 1..Len(text) : HashesAt(p, k)})
\* a quoted string with at least one padding hash opens at p
PaddedOpens(p) ==
    /\ HashRun(p) >= 1
    /\ p + HashRun(p) <= Len(text)
    /\ is_quote(text[p + HashRun(p)])
\* the quotes that may end the string that opens at p: those after the
\* opening quote that are its quote character followed by its hashes
Closers(p) ==
    {c \in (p + HashRun(p) + 1)..Len(text) :
        /\ text[c] = text[p + HashRun(p)]
        /\ HashesAt(c + 1, HashRun(p))}
First(S) == CHOOSE c \in S : \A o \in S : c <= o
\* `tok` is the string that opens at p and ends at its first closer
EndsAtFirstCloser(p, tok) ==
    /\ Closers(p) # {}
    /\ tok.type = "Characters"
    /\ tok.contents = <<SubSeq(text, p + HashRun(p) + 1, First(Closers(p)) - 1)>>
    /\ SpanEnd(tok.span) = First(Closers(p)) + HashRun(p) + 1
\* what a lexer returned so far: every token that starts where a padded
\* string opens is that string, and no error was returned where a padded
\* string with a closer opens (`at` is where the lexer is)
PaddedStringsLexed(tokens, at) ==
    /\ \A i \in DOMAIN tokens :
          (tokens[i].kind = "token" /\ tokens[i].val.type # "EndOfFile"
              /\ PaddedOpens(SpanStart(tokens[i].val.span)))
          => EndsAtFirstCloser(SpanStart(tokens[i].val.span), tokens[i].val)
    /\ \A i \in DOMAIN tokens :
          (tokens[i].kind # "token" /\ PaddedOpens(at)) => Closers(at) = {}

BrokenAt(p, q) ==
    /\ q <= Len(text)
    /\ is_quote(text[q])
    /\ \E j \in (q + 1)..Len(text) :
          /\ text[j] = "\n"
          /\ \A i \in (q + 1)..(j - 1) : text[i] # text[q]
          /\ \E c \in (j + 1)..Len(text) : text[c] = text[q]
PlainStringBroken(p) ==
    \/ BrokenAt(p, p)
    \/ p <= Len(text) /\ text[p] = "r" /\ BrokenAt(p, p + 1)
\* what a lexer returned where such a string opens (`at` is where it is and
\* `done` says that it returned its last result there)
NewlineRefused(tokens, at, done) ==
    /\ \A i \in DOMAIN tokens :
          (tokens[i].kind = "token" /\ tokens[i].val.type # "EndOfFile")
          => ~PlainStringBroken(SpanStart(tokens[i].val.span))
    /\ (done /\ PlainStringBroken(at))
       => /\ tokens[Len(tokens)].kind = "error"
          /\ tokens[Len(tokens)].val.type = "UnexpectedNewlineInQuotedString"

\* C23: a quoted string without padding hashes that has a newline before its
\* closing quote makes the lexer return the error
\* UnexpectedNewlineInQuotedString, and no token is produced for it
C23_NewlineInPlainStringReported ==
    /\ NewlineRefused(lexer_iter.tokens, lexer_iter.posn, lexer_iter.done)
    /\ NewlineRefused(reader.tokens, skip_whitespace(reader.pos), reader.done)

(***************************************************************************)
(* Tags                                                                    *)
(***************************************************************************)
\* the number of name characters that the text has from p on
NameRun(p) ==
    Cardinality({k \in 1..Len(text) :
                    \A i \in 0..(k - 1) :
                       p + i <= Len(text) /\ is_name(text[p + i])})
\* the parts of the tag at p: its hashes, the first name, the second name if
\* a ':' follows the first, and the position after the names
TagParts(p) ==
    LET hashes == HashRun(p)
        first == NameRun(p + hashes)
        colon == p + hashes + first
        prefixed == colon <= Len(text) /\ text[colon] = ":"
        second == IF prefixed THEN NameRun(colon + 1) ELSE 0
    IN [depth |-> hashes,
        complete |-> hashes >= 1 /\ first >= 1 /\ (prefixed => second >= 1),
        prefix |-> IF prefixed THEN SubSeq(text, p + hashes, colon - 1)
                   ELSE <<>>,
        name |-> IF prefixed THEN SubSeq(text, colon + 1, colon + second)
                 ELSE SubSeq(text, p + hashes, colon - 1),
        end |-> IF prefixed THEN colon + 1 + second ELSE colon]
\* hashes followed by a name or by prefix:name are at p
TagAt(p) == TagParts(p).complete
\* the tag token that the claim gives for the tag at p
TagOf(p, parts) ==
    IF parts.end <= Len(text) /\ text[parts.end] = "{"
    THEN TokenOpen(<<p, parts.end + 1>>, parts.prefix, parts.name,
                   parts.depth, TRUE)
    ELSE IF parts.end <= Len(text) /\ text[parts.end] = "}"
    THEN TokenClose(<<p, parts.end + 1>>, parts.prefix, parts.name,
                    parts.depth)
    ELSE TokenOpen(<<p, parts.end>>, parts.prefix, parts.name, parts.depth,
                   FALSE)
\* whitespace or the end of the text follows the tag `tok`
Followed(tok) ==
    \/ SpanEnd(tok.span) > Len(text)
    \/ is_whitespace(text[SpanEnd(tok.span)])
\* what a lexer returned so far: a token that starts at a tag is its tag
\* token, and a tag that whitespace or the end of the text follows was not
\* refused (`at` is where the lexer is)
TagsLexed(tokens, at) ==
    /\ \A i \in DOMAIN tokens :
          (tokens[i].kind = "token" /\ tokens[i].val.type # "EndOfFile"
              /\ TagAt(SpanStart(tokens[i].val.span)))
          => LET p == SpanStart(tokens[i].val.span)
             IN tokens[i].val = TagOf(p, TagParts(p))
    /\ \A i \in DOMAIN tokens :
          (tokens[i].kind # "token" /\ TagAt(at))
          => ~Followed(TagOf(at, TagParts(at)))

\* C24: k >= 1 hashes followed by a name or by prefix:name lex to a tag token
\* of depth k with that prefix (empty without a ':') and name: a boxed
\* TagOpen when '{' follows the name, a TagClose when '}' follows it, a
\* TagOpen that is not boxed otherwise; so it is with both lexers
C24_TagToken ==
    /\ TagsLexed(lexer_iter.tokens, lexer_iter.posn)
    /\ TagsLexed(reader.tokens, skip_whitespace(reader.pos))

\* the text #a:a} was lexed to the close tag a:a of depth 1
C24_Witness ==
    /\ text = <<"#", "a", ":", "a", "}">>
    /\ lexer_iter.tokens
         = <<[kind |-> "token",
              val |-> TokenClose(<<1, 6>>, <<"a">>, <<"a">>, 1)]>>
    /\ Len(reader.tokens) >= 1
    /\ reader.tokens[1].val = TokenClose(<<1, 6>>, <<"a">>, <<"a">>, 1)

\* what a lexer returned where a tag is that neither whitespace nor the end
\* of the text follows: no token, and the error `refusal` if it is given
\* (`at` is where the lexer is, `done` says that its last result is of there)
TagRefused(tokens, at, done, refusal) ==
    /\ \A i \in DOMAIN tokens :
          (tokens[i].kind = "token" /\ tokens[i].val.type # "EndOfFile"
              /\ TagAt(SpanStart(tokens[i].val.span)))
          => Followed(tokens[i].val)
    /\ (done /\ TagAt(at))
       => IF Followed(TagOf(at, TagParts(at)))
          THEN tokens[Len(tokens)].kind = "token"
          ELSE /\ tokens[Len(tokens)].kind = "error"
               /\ refusal \in {"", tokens[Len(tokens)].val.type}

PastRun(p, stay(_)) ==
    First({e \in p..(Len(text) + 1) : e > Len(text) \/ ~stay(text[e])})
\* the lines of the block of comment lines that starts at p: for each line,
\* after its horizontal whitespace and its ';', the text up to the newline
RECURSIVE BlockLines(_)
BlockLines(p) ==
    LET semi == PastRun(p, LAMBDA c : is_whitespace(c) /\ ~is_newline(c))
        end == PastRun(semi + 1, LAMBDA c : ~is_newline(c))
    IN IF semi > Len(text) \/ text[semi] # ";" THEN <<>>
       ELSE <<SubSeq(text, semi + 1, end - 1)>>
            \o (IF end <= Len(text) THEN BlockLines(end + 1) ELSE <<>>)

\* C26: a block of consecutive comment lines lexes to one Comment token
\* whose lines are, in order, the text after each ';' up to the newline or
\* the end of the input, whatever the lines hold (nothing, too) and also
\* when the last line ends the input
C26_CommentBlock ==
    /\ \A i \in DOMAIN lexer_iter.tokens :
          LET e == lexer_iter.tokens[i]
          IN (e.kind = "token" /\ text[SpanStart(e.val.span)] = ";")
             => /\ e.val.type = "Comment"
                /\ e.val.contents = BlockLines(SpanStart(e.val.span))
    /\ (lexer_iter.done /\ lexer_iter.posn <= Len(text))
       => text[lexer_iter.posn] # ";"

(***************************************************************************)
(* The two lexers                                                          *)
(***************************************************************************)
\* the tokens among what a lexer returned, without the Whitespace tokens, the
\* EndOfFile token and the spans
RECURSIVE Stripped(_)
Stripped(tokens) ==
    IF tokens = <<>> THEN <<>>
    ELSE (IF /\ tokens[1].kind = "token"
             /\ tokens[1].val.type \notin {"Whitespace", "EndOfFile"}
          THEN <<[type |-> tokens[1].val.type,
                  contents |-> tokens[1].val.contents,
                  depth |-> tokens[1].val.depth,
                  boxed |-> tokens[1].val.boxed]>>
          ELSE <<>>)
         \o Stripped(Tail(tokens))
\* a lexer returned an error (or did not return)
Failed(tokens) == \E i \in DOMAIN tokens : tokens[i].kind # "token"

\* C27: Lexer::next_token and the lexer made of parse_fns yield the same
\* tokens other than Whitespace for every text (type, strings, depth and
\* boxed flag), and one returns an error exactly when the other does
C27_LexersEquivalent ==
    (reader.done /\ lexer_iter.done)
    => /\ Stripped(reader.tokens) = Stripped(lexer_iter.tokens)
       /\ Failed(reader.tokens) <=> Failed(lexer_iter.tokens)

(***************************************************************************)
(* The name space stack: lookup, iteration, insertion order                *)
(***************************************************************************)
\* the binding of prefix_id in the highest of `frames` that binds it
RECURSIVE Binding(_, _)
Binding(frames, prefix_id) ==
    IF frames = <<>> THEN NoId
    ELSE IF prefix_id \in DOMAIN Top(frames).mappings
         THEN Top(frames).mappings[prefix_id]
         ELSE Binding(Pop(frames), prefix_id)

\* the prefix ids of the pool of a stack (0 is the empty prefix)
PrefixIds(ns) == 0..Len(ns.namespaces.prefixes)

\* the step adds an attribute that declares a prefix: xmlns='v' declares the
\* empty prefix, xmlns:p='v' declares p
Declares(attr) ==
    /\ AttributeAdded /\ uses_xmlns(ns_stack)
    /\ attr = Top(parser'.tag_stack).attributes
                  [Len(Top(parser'.tag_stack).attributes)]
    /\ prefix_str(ns_stack', attr.name.prefix) = "xmlns"

DeclaredPrefix(ns, attr) ==
    IF name_str(ns, attr.name.name) = "xmlns" THEN 0
    ELSE find_prefix_id(ns, name_str(ns, attr.name.name))

\* C28: lookup returns the binding of the highest frame that binds the prefix
\* and none if no frame binds it; a declaration rewrites the binding of its
\* prefix in the topmost frame and nothing else; once frames are popped the
\* lookup returns what the remaining frames bound
C28_LookupTopmostFirst ==
    [][/\ \A p \in PrefixIds(ns_stack') :
             find_mapping(ns_stack', p) = Binding(ns_stack'.frames, p)
       /\ \A attr \in {Top(parser'.tag_stack).attributes[k] :
                          k \in 1..(IF Len(parser'.tag_stack) = 0 THEN 0
                                    ELSE Len(Top(parser'.tag_stack).attributes))} :
             Declares(attr) =>
                LET p == DeclaredPrefix(ns_stack', attr)
                    n == Len(ns_stack.frames)
                IN  /\ Len(ns_stack'.frames) = n
                    /\ Pop(ns_stack'.frames) = Pop(ns_stack.frames)
                    /\ DOMAIN Top(ns_stack'.frames).mappings
                          = DOMAIN Top(ns_stack.frames).mappings \cup {p}
                    /\ \A q \in DOMAIN Top(ns_stack.frames).mappings \ {p} :
                          Top(ns_stack'.frames).mappings[q]
                              = Top(ns_stack.frames).mappings[q]
                    /\ uri_str(ns_stack', Top(ns_stack'.frames).mappings[p])
                          = attr.value
                    /\ uri_str(ns_stack', find_mapping(ns_stack', p))
                          = attr.value
       /\ Len(ns_stack'.frames) < Len(ns_stack.frames) =>
             \A p \in PrefixIds(ns_stack') :
                find_mapping(ns_stack', p)
                    = Binding(SubSeq(ns_stack.frames, 1,
                                     Len(ns_stack'.frames)), p)]_vars

\* the empty prefix is bound to the empty uri in the bottom frame and was
\* declared as u, then as w, in the topmost frame: the lookup returns w
C28_Witness ==
    /\ Len(ns_stack.frames) >= 2
    /\ Len(parser.tag_stack) > 0
    /\ Len(Top(parser.tag_stack).attributes) = 2
    /\ Top(parser.tag_stack).attributes[1].value = "u"
    /\ Top(parser.tag_stack).attributes[2].value = "w"
    /\ \A k \in 1..2 :
          IsXmlnsName(ns_stack, Top(parser.tag_stack).attributes[k].name)
    /\ frame_find_mapping(ns_stack.frames[1], 0) = 0
    /\ frame_find_mapping(Top(ns_stack.frames), 0) = find_mapping(ns_stack, 0)
    /\ uri_str(ns_stack, find_mapping(ns_stack, 0)) = "w"

\* what an iteration yields, one entry for each time a mapping is yielded:
\* the position of the frame set together with the mapping
Entries(yields) ==
    UNION {{<<k, m>> : m \in yields[k]} : k \in 1..Len(yields)}

YieldedFor(yields, prefix_id) ==
    {e \in Entries(yields) : e[2][1] = prefix_id}

\* C29: iterating the stack yields exactly one mapping for each prefix bound
\* in some frame, the binding of the topmost frame that binds it, and none
\* for any other prefix: a shadowed binding is never yielded
C29_IterationEffective ==
    LET Effective(yields) ==
            \A p \in PrefixIds(ns_stack) :
                IF find_mapping(ns_stack, p) = NoId
                THEN YieldedFor(yields, p) = {}
                ELSE \E e \in Entries(yields) :
                        /\ YieldedFor(yields, p) = {e}
                        /\ e[2] = <<p, find_mapping(ns_stack, p)>>
    IN  Effective(into_iter(ns_stack))

\* the prefixes that `attributes` declare, each at its first declaration
RECURSIVE DeclaredOrder(_, _)
DeclaredOrder(ns, attributes) ==
    LET Added(earlier, attr) ==
            IF /\ prefix_str(ns, attr.name.prefix) = "xmlns"
               /\ \A k \in 1..Len(earlier) :
                     earlier[k] # DeclaredPrefix(ns, attr)
            THEN Append(earlier, DeclaredPrefix(ns, attr))
            ELSE earlier
    IN  IF attributes = <<>> THEN <<>>
        ELSE Added(DeclaredOrder(ns, Pop(attributes)), Top(attributes))

\* C30: on a stack with a frame, iter_top_mappings does not panic and yields
\* each prefix bound in the topmost frame once, with its current uri; while
\* an element is being built, whose frame is the topmost one, the prefixes
\* come in the order in which its attributes first declared them
C30_TopFrameInDeclarationOrder ==
    Len(ns_stack.frames) >= 1 =>
        LET Ordered(it) ==
                /\ ~it.panics
                /\ {it.yields[k][1] : k \in 1..Len(it.yields)}
                      = DOMAIN Top(ns_stack.frames).mappings
                /\ \A j, k \in 1..Len(it.yields) :
                      it.yields[j][1] = it.yields[k][1] => j = k
                /\ \A k \in 1..Len(it.yields) :
                      it.yields[k][2]
                          = frame_find_mapping(Top(ns_stack.frames),
                                               it.yields[k][1])
                /\ (/\ uses_xmlns(ns_stack)
                    /\ parser.start_element_building
                    /\ Len(parser.tag_stack) > 0) =>
                      [k \in 1..Len(it.yields) |-> it.yields[k][1]]
                          = DeclaredOrder(ns_stack,
                                          Top(parser.tag_stack).attributes)
        IN  Ordered(iter_top_mappings(ns_stack))

(***************************************************************************)
(* The pool of interned strings                                            *)
(***************************************************************************)
\* strings to intern: those the documents use and one they never use
PoolStrings == {"", "a", "k", "p", "u", "w", "xml", "xmlns", XmlnsUri, "z"}

\* vector `after` keeps every string of `before` at its index
Kept(before, after) ==
    /\ Len(after) >= Len(before)
    /\ SubSeq(after, 1, Len(before)) = before

\* no string has two indices in v, and the empty string has none
Injective(v) ==
    \A i, j \in 1..Len(v) : v[i] # "" /\ (v[i] = v[j] => i = j)

\* interned[s] is the outcome of interning s in pool, whose vector v it uses
\* and whose new vector is grown[s]
InternedOnce(pool, v, interned, grown) ==
    \A s \in PoolStrings :
        IF s = "" THEN interned[s].id = 0 /\ interned[s].pool = pool
        ELSE IF \E i \in 1..Len(v) : v[i] = s
        THEN /\ interned[s].pool = pool
             /\ interned[s].id \in 1..Len(v)
             /\ v[interned[s].id] = s
        ELSE /\ interned[s].id = Len(v) + 1
             /\ grown[s] = Append(v, s)

\* C31: a step keeps every interned prefix, uri and name at its id; no
\* string has two ids; in the pool the step leaves, interning the empty
\* string gives the none id, interning an interned string gives its id and
\* leaves the pool as it is, and interning a new string gives the next id
C31_InterningStable ==
    [][LET Stable(old, new) ==
               /\ Kept(old.prefixes, new.prefixes)
               /\ Kept(old.uris, new.uris)
               /\ Kept(old.names, new.names)
               /\ Injective(new.prefixes)
               /\ Injective(new.uris)
               /\ Injective(new.names)
               /\ InternedOnce(new, new.prefixes,
                     [s \in PoolStrings |-> find_or_add_prefix(new, s)],
                     [s \in PoolStrings |->
                         find_or_add_prefix(new, s).pool.prefixes])
               /\ InternedOnce(new, new.uris,
                     [s \in PoolStrings |-> find_or_add_uri(new, s)],
                     [s \in PoolStrings |->
                         find_or_add_uri(new, s).pool.uris])
               /\ InternedOnce(new, new.names,
                     [s \in PoolStrings |-> find_or_add_name(new, s)],
                     [s \in PoolStrings |->
                         find_or_add_name(new, s).pool.names])
       IN  Stable(ns_stack.namespaces, ns_stack'.namespaces)]_vars

\* two elements were started whose tags have the same interned name a and
\* the same interned prefix p, after xmlns and xml were interned
C31_Witness ==
    /\ ns_stack.namespaces.prefixes = <<"xmlns", "xml", "p">>
    /\ \E i, j \in EventIndices("StartElement") :
          /\ i < j
          /\ events[i].tag.name.name = events[j].tag.name.name
          /\ name_str(ns_stack, events[i].tag.name.name) = "a"
          /\ events[i].tag.name.prefix = 3
          /\ events[j].tag.name.prefix = 3

(***************************************************************************)
(* Popping the name space stack                                            *)
(***************************************************************************)
\* the step is a pop_frame call of the client
PopFrameCalled == ret'.val.type = "pop_frame"

\* C32 as stated: a pop_frame call without an earlier push_frame that it
\* matches panics
C32_UnmatchedPopPanics ==
    [][PopFrameCalled /\ unpopped = 0 => ret'.kind = "panic"]_vars

\* C32: pop_frame panics exactly when the stack has no frame; otherwise it
\* returns and the topmost frame is gone, also when that is the frame that
\* NamespaceStack::new created
C32_PopPanicsOnEmptyStack ==
    [][PopFrameCalled =>
          IF Len(ns_stack.frames) = 0
          THEN ret'.kind = "panic"
          ELSE /\ ret'.kind = "returned"
               /\ ns_stack'.frames = Pop(ns_stack.frames)
               /\ ns_stack'.namespaces = ns_stack.namespaces]_vars

\* a pop_frame call that matches no push_frame has returned and has left a
\* stack without frames
C32_Witness ==
    /\ ret = [kind |-> "returned", val |-> [type |-> "pop_frame"]]
    /\ unpopped = 0
    /\ Len(ns_stack.frames) = 0

(***************************************************************************)
(* Pending items                                                           *)
(***************************************************************************)
\* the pending items of the parser that are set
PendingSet(p) ==
    {item \in {"open_tag", "close_tag", "token"} :
        \/ item = "open_tag" /\ p.pending_open_tag # NoneTok
        \/ item = "close_tag" /\ p.pending_close_tag # NoneTok
        \/ item = "token" /\ p.pending_token # NoneTok}

\* C33: at the start of every iteration of the loop of next_event, and so
\* between calls, at most one of the pending open tag, close tag and token
\* is set, and none of them while the end of file is pending
C33_OnePending ==
    /\ Cardinality(PendingSet(parser)) <= 1
    /\ parser.pending_eof => PendingSet(parser) = {}

\* between two calls a close tag is pending again after it closed an
\* element, and nothing else is pending
C33_Witness ==
    /\ BetweenCalls
    /\ PendingSet(parser) = {"close_tag"}
    /\ Len(closed) > 0
    /\ Top(closed).by = "close_tag"
    /\ IsEvent(ret.val, "EndElement")

(***************************************************************************)
(* Events in the order of the tokens                                       *)
(***************************************************************************)
IsContentToken(token) ==
    token.type \in {"Comment", "Characters", "RawCharacters"}

\* the event that a Comment, Characters or RawCharacters token stands for
EventOf(token) ==
    IF token.type = "Comment" THEN EventComment(token.span, token.contents)
    ELSE EventContent(token.span,
                      IF token.type = "Characters" THEN "Interpretable"
                      ELSE "Raw",
                      token.contents[1])

\* the event comes from the token: a Comment or Content event is the event
\* of the token, a StartElement is at the span of the TagOpen token
ComesFrom(event, token) ==
    IF event.type = "StartElement"
    THEN token.type = "TagOpen" /\ token.span = event.span
    ELSE IsContentToken(token) /\ event = EventOf(token)

\* C34: when EndDocument has been returned, the Comment and Content events
\* are, in order, the events of the Comment, Characters and RawCharacters
\* tokens handed out, and the Comment, Content and StartElement events come
\* from tokens in the order in which the tokens were handed out
C34_EventsInTokenOrder ==
    parser.finished =>
        LET Ordered(evs, toks) ==
                /\ [k \in 1..Len(SelectSeq(evs,
                                   LAMBDA e : e.type # "StartElement")) |->
                       SelectSeq(evs, LAMBDA e : e.type # "StartElement")[k]]
                      = [k \in 1..Len(SelectSeq(toks, IsContentToken)) |->
                            EventOf(SelectSeq(toks, IsContentToken)[k])]
                /\ \A i \in 1..Len(evs) :
                      \E m \in 1..Len(toks) : ComesFrom(evs[i], toks[m])
                /\ \A i, j \in 1..Len(evs) :
                      i < j =>
                         \A m, n \in 1..Len(toks) :
                            (/\ ComesFrom(evs[i], toks[m])
                             /\ ComesFrom(evs[j], toks[n])) => m < n
        IN  Ordered(SelectSeq(events,
                       LAMBDA e : e.type \in {"Comment", "Content",
                                              "StartElement"}),
                    handed)

\* a run has ended in which a tag, character data, raw character data and
\* a comment were handed out, and five events lie between StartDocument and
\* EndDocument: StartElement, two Contents, Comment, EndElement
C34_Witness ==
    /\ parser.finished /\ ~errored
    /\ [k \in 1..Len(handed) |-> handed[k].type]
          = <<"TagOpen", "Characters", "RawCharacters", "Comment">>
    /\ [k \in 1..Len(events) |-> events[k].type]
          = <<"StartDocument", "StartElement", "Content", "Content",
              "Comment", "EndElement", "EndDocument">>

(***************************************************************************)
(* Panics                                                                  *)
(***************************************************************************)
\* C36: no iteration of the loop of next_event panics: the assertion of
\* pop_tag_stack and the unwraps of the handlers hold for every sequence of
\* tokens, so that each call returns an event or an error
C36_NeverPanics == ret.kind # "panic"

(***************************************************************************)
(* What tag_depth counts                                                   *)
(***************************************************************************)
\* C37: tag_depth is the number of elements of the element stack above the
\* innermost boxed one, or of all of them if none is boxed, so the stack is
\* not empty while tag_depth > 0; the parent_depth of each element is the
\* tag_depth of just before it was pushed
C37_DepthCountsElements ==
    /\ parser.tag_depth
          = Len(parser.tag_stack) - BoxIndex(parser.tag_stack)
    /\ parser.tag_depth > 0 => Len(parser.tag_stack) > 0
    /\ Len(opened) = Len(parser.tag_stack)
    /\ \A i \in 1..Len(parser.tag_stack) :
          parser.tag_stack[i].parent_depth = opened[i].tag_depth

\* an element is open inside a boxed element of depth 2 inside an element
C37_Witness ==
    /\ Len(parser.tag_stack) = 3
    /\ BoxIndex(parser.tag_stack) = 2
    /\ parser.tag_stack[2].open_tag.extra.depth = 2
    /\ parser.tag_depth = 1
    /\ parser.tag_stack[3].parent_depth = 0
    /\ parser.tag_stack[2].parent_depth = 1

(***************************************************************************)
(* What closes a boxed element                                             *)
(***************************************************************************)
\* C38: a step that pops an element opened by a boxed opener handles a
\* pending close tag or the pending end of file, never a pending open tag,
\* and so it was for every boxed element popped so far
C38_OpenTagKeepsBox ==
    /\ [][(/\ Len(parser'.tag_stack) < Len(parser.tag_stack)
           /\ Top(parser.tag_stack).open_tag.extra.boxed)
          => /\ Dispatch(parser) \in {"close_tag", "eof"}
             /\ IsEvent(ret'.val, "EndElement")]_vars
    /\ [](\A i \in 1..Len(closed) :
             closed[i].boxed => closed[i].by \in {"close_tag", "eof"})

\* inside a boxed element that is still open, an open tag of depth 1 has
\* closed the element before it and has opened its own
C38_Witness ==
    /\ Len(parser.tag_stack) = 2
    /\ parser.tag_stack[1].open_tag.extra.boxed
    /\ ~parser.tag_stack[2].open_tag.extra.boxed
    /\ closed = <<[boxed |-> FALSE, by |-> "open_tag"]>>
    /\ parser.start_element_building

(***************************************************************************)
(* Attributes outside XML mode                                             *)
(***************************************************************************)
\* the step hands an Attribute token to an element that is being built
AttributeHandled ==
    /\ parser.start_element_building
    /\ Len(parser.tag_stack) > 0
    /\ Len(received') = Len(received) + 1
    /\ Top(received').type = "Attribute"

\* C39: with a Namespace made with xmlns = false no step adds or changes a
\* binding in a frame; an attribute handed to an element being built, also
\* xmlns='v' and xmlns:p='v', leaves the frames as they are and is added
\* with the uri that its prefix resolves to, or is refused with
\* UnmappedPrefix when its prefix resolves to nothing
C39_NoDeclarationOutsideXmlMode ==
    [][~ns_stack.namespaces.xmlns =>
          /\ \A i \in 1..Len(ns_stack.frames) :
                i <= Len(ns_stack'.frames) =>
                   ns_stack'.frames[i] = ns_stack.frames[i]
          /\ \A i \in 1..Len(ns_stack'.frames) :
                i > Len(ns_stack.frames) =>
                   ns_stack'.frames[i] = FrameDefault
          /\ AttributeHandled =>
                LET Resolved(token, uri) ==
                        /\ ns_stack'.frames = ns_stack.frames
                        /\ IF uri = NoId
                           THEN /\ ret' = Err(ErrMarkup(token.span,
                                                        "UnmappedPrefix"))
                                /\ Top(parser'.tag_stack).attributes
                                      = Top(parser.tag_stack).attributes
                           ELSE /\ ret' = OkNone
                                /\ AttributeAdded
                                /\ \E attr \in
                                      {Top(parser'.tag_stack).attributes
                                         [Len(Top(parser'.tag_stack)
                                                 .attributes)]} :
                                      /\ attr.value = token.contents[3]
                                      /\ attr.name.uri = uri
                                      /\ prefix_str(ns_stack',
                                                    attr.name.prefix)
                                            = token.contents[1]
                                      /\ name_str(ns_stack', attr.name.name)
                                            = token.contents[2]
                IN  Resolved(Top(received'),
                             ResolvePrefix(ns_stack,
                                           Top(received').contents[1]))
      ]_vars

\* outside XML mode an element has been given xmlns='u', which was added
\* under the empty uri, and then xmlns:p='u', which was refused; its frame
\* has no binding
C39_Witness ==
    /\ ~ns_stack.namespaces.xmlns
    /\ Len(parser.tag_stack) = 1
    /\ Len(ns_stack.frames) = 2
    /\ ns_stack.frames[2] = FrameDefault
    /\ Len(received) = 2
    /\ received[1].contents = <<"", "xmlns", "u">>
    /\ received[2].contents = <<"xmlns", "p", "u">>
    /\ ret = Err(ErrMarkup(received[2].span, "UnmappedPrefix"))
    /\ Len(Top(parser.tag_stack).attributes) = 1
    /\ Top(parser.tag_stack).attributes[1].value = "u"
    /\ Top(parser.tag_stack).attributes[1].name.uri = 0

(***************************************************************************)
(* Termination                                                             *)
(***************************************************************************)
\* C35: the token source hands out finitely many tokens and then EndOfFile;
\* the calls of next_event, repeated, eventually return EndDocument or an
\* error
C35_EventuallyEndDocumentOrError ==
    <>(\/ errored
       \/ \E i \in 1..Len(events) : events[i].type = "EndDocument")
=============================================================================
